---- MODULE Spec2Model ----
(***************************************************************************)
(* rankings-core: standings engines (Swiss, round-robin) and the Swiss     *)
(* pairing matcher, as state machines over a caller-owned match history.   *)
(*                                                                         *)
(* Numbers.  The engines compute percentages and Sonneborn-Berger scores   *)
(* as IEEE doubles.  Here every such value is an exact rational <<n, d>>   *)
(* in lowest terms with d > 0.  On the histories of this model two         *)
(* distinct values differ by far more than the 1e-12 (and 1e-9) epsilons   *)
(* of the code and rounding error is far below them, so                    *)
(* "Math.abs(x - y) < 1e-12" is equality of the rationals and              *)
(* "Math.abs(x - y) > 1e-12" is their difference.                          *)
(*                                                                         *)
(* Strings.  Player ids are TLA+ strings; where the code hashes a string   *)
(* (fnv1a) the string is the sequence of its char codes.  A match id is    *)
(* [base |-> n, mirror |-> b] for the string "m<n>" (b = FALSE) or         *)
(* "m<n>#mirror" (b = TRUE); localeCompare on these ids compares their     *)
(* characters from the left ("m10" sorts before "m2"), a proper prefix     *)
(* before the longer string; on the characters of these ids ("#", digits,  *)
(* lower-case letters) the collation order is the order of the char codes. *)
(***************************************************************************)
EXTENDS Integers, Sequences, FiniteSets, TLC

\* ------------------------------------------------------------------ bounds
\* Longest history the caller supplies.
MaxMatches == 2

\* Longest player list handed to the round-robin scheduler.
MaxPlayers == 5

\* Most results entered in an event run from the schedule.
MaxResults == 4

\* ------------------------------------------------------------------ rationals
RECURSIVE GCD(_, _)
GCD(a, b) == IF b = 0 THEN a ELSE GCD(b, a % b)

Abs(x) == IF x < 0 THEN -x ELSE x

Rat(n, d) ==
  LET g == GCD(Abs(n), Abs(d))
      s == IF d < 0 THEN -1 ELSE 1
  IN  <<(s * n) \div g, (s * d) \div g>>

R(n) == <<n, 1>>
RAdd(x, y) == Rat(x[1] * y[2] + y[1] * x[2], x[2] * y[2])
RMul(x, y) == Rat(x[1] * y[1], x[2] * y[2])
RDiv(x, y) == Rat(x[1] * y[2], x[2] * y[1])
RLt(x, y) == x[1] * y[2] < y[1] * x[2]
RLe(x, y) == x[1] * y[2] <= y[1] * x[2]
RMax(x, y) == IF RLt(x, y) THEN y ELSE x
RMin(x, y) == IF RLt(y, x) THEN y ELSE x
Half == <<1, 2>>

RECURSIVE RSum(_)
RSum(s) == IF s = <<>> THEN R(0) ELSE RAdd(Head(s), RSum(Tail(s)))

\* ------------------------------------------------------------------ sequences
\* A sequence (resp. a function) given by a rule, held as the tuple (resp. the
\* table) of its values: the same value, computed once.
Array(f) == f \o <<>>
Table(f) == f @@ <<>>

\* Array.prototype.sort with a consistent comparator: the stable order.
\* Before(a, b) is "the comparator returns a negative number for (a, b)".
StableSort(s, Before(_, _)) ==
  LET n == Len(s)
      pos(i) == Cardinality({j \in 1..n :
                   Before(s[j], s[i]) \/ (~Before(s[i], s[j]) /\ j < i)}) + 1
  IN  Array([k \in 1..n |-> s[CHOOSE i \in 1..n : pos(i) = k]])

Range(s) == {s[i] : i \in DOMAIN s}

\* Distinct elements of s in order of first occurrence (insertion order of
\* the keys of an object).
RECURSIVE Distinct(_)
Distinct(s) ==
  IF s = <<>> THEN <<>>
  ELSE LET init == Distinct(SubSeq(s, 1, Len(s) - 1))
           x == s[Len(s)]
       IN  IF x \in Range(init) THEN init ELSE Append(init, x)

\* ------------------------------------------------------------------ types
WIN == "win"
LOSS == "loss"
DRAW == "draw"
BYE == "bye"
FORFEIT_WIN == "forfeit-win"
FORFEIT_LOSS == "forfeit-loss"
MatchResult == {WIN, LOSS, DRAW, BYE, FORFEIT_WIN, FORFEIT_LOSS}

\* opponentId of a bye record (null).
NoOpponent == "null"

PCT_FLOOR_DEFAULT == <<33, 100>>
DefaultPoints == [win |-> 3, draw |-> 1, loss |-> 0, bye |-> 3]

\* ------------------------------------------------------------------ hash
RECURSIVE Xor(_, _)
Xor(a, b) ==
  IF a = 0 THEN b
  ELSE IF b = 0 THEN a
  ELSE (((a % 2) + (b % 2)) % 2) + 2 * Xor(a \div 2, b \div 2)

\* One round of the loop of fnv1a on h = <<high 16 bits, low 16 bits>>:
\* h ^= c; h = (h * 16777619) mod 2^32, with 16777619 = 256 * 2^16 + 403.
FnvStep(h, c) ==
  LET lo == (h[2] - (h[2] % 256)) + Xor(h[2] % 256, c)
      p0 == lo * 403
  IN  <<((h[1] * 403) + (lo * 256) + (p0 \div 65536)) % 65536, p0 % 65536>>

\* The loop over the characters.  Each round's word is computed before the
\* next round starts (the test on it always holds: its limbs are naturals).
RECURSIVE FnvFrom(_, _)
FnvFrom(h, str) ==
  IF str = <<>> THEN h
  ELSE LET next == FnvStep(h, Head(str))
       IN  IF next[1] >= 0 THEN FnvFrom(next, Tail(str)) ELSE next

\* 0x811c9dc5 = <<0x811c, 0x9dc5>>
fnv1a(str) == FnvFrom(<<33052, 40389>>, str)

HashLt(x, y) == x[1] < y[1] \/ (x[1] = y[1] /\ x[2] < y[2])

\* Char codes of the player ids and of the separators of the hashed strings.
CharCodes(id) ==
  CASE id = "A" -> <<65>>
    [] id = "B" -> <<66>>
    [] id = "C" -> <<67>>
    [] id = "D" -> <<68>>
    [] id = "E" -> <<69>>
    [] id = "F" -> <<70>>
    [] id = "X" -> <<88>>
    [] id = "Z" -> <<90>>
    [] id = "X|Y" -> <<88, 124, 89>>
    [] id = "Y|Z" -> <<89, 124, 90>>
    [] id = "A::B" -> <<65, 58, 58, 66>>
    [] id = "B::C" -> <<66, 58, 58, 67>>

\* "::fallback::"
SwissFallbackTag == <<58, 58, 102, 97, 108, 108, 98, 97, 99, 107, 58, 58>>
\* "::rr-fallback::"
RRFallbackTag == <<58, 58, 114, 114, 45>> \o <<102, 97, 108, 108, 98, 97, 99, 107, 58, 58>>

\* ------------------------------------------------------------------ grouping
\* `${n}` of a non-negative integer: its decimal digits as char codes.
RECURSIVE DecimalDigits(_)
DecimalDigits(n) ==
  IF n < 10 THEN <<48 + n>> ELSE DecimalDigits(n \div 10) \o <<48 + (n % 10)>>

\* "#mirror"
MirrorSuffix == <<35, 109, 105, 114, 114, 111, 114>>

\* The string of a match id: "m<n>" or "m<n>#mirror".
IdChars(id) ==
  <<109>> \o DecimalDigits(id.base) \o (IF id.mirror THEN MirrorSuffix ELSE <<>>)

\* s.localeCompare(t) < 0 on strings of "#", digits and lower-case letters.
RECURSIVE LocaleLt(_, _)
LocaleLt(s, t) ==
  IF t = <<>> THEN FALSE
  ELSE IF s = <<>> THEN TRUE
  ELSE IF Head(s) # Head(t) THEN Head(s) < Head(t)
  ELSE LocaleLt(Tail(s), Tail(t))

\* a.id.localeCompare(b.id) < 0
IdLt(a, b) == LocaleLt(IdChars(a), IdChars(b))

MatchBefore(a, b) == a.round < b.round \/ (a.round = b.round /\ IdLt(a.id, b.id))

\* Object.keys(byPlayer): owners in order of first record.
PlayerIdsOf(matches) == Distinct(Array([i \in DOMAIN matches |-> matches[i].playerId]))

\* byPlayer[pid]; the empty list for an id that owns no record (byPlayer[oid] ?? []).
groupByPlayer(matches, pid) ==
  StableSort(SelectSeq(matches, LAMBDA m : m.playerId = pid), MatchBefore)

\* ------------------------------------------------------------------ tally
div(n, d) == IF RLt(R(0), d) THEN RDiv(n, d) ELSE R(0)

isRealOpponent(id) == id # NoOpponent

ptsFromResult(r, map) ==
  CASE r \in {WIN, FORFEIT_WIN} -> map.win
    [] r = DRAW -> map.draw
    [] r \in {LOSS, FORFEIT_LOSS} -> map.loss
    [] r = BYE -> map.bye

RECURSIVE SumInts(_)
SumInts(ns) == IF ns = <<>> THEN 0 ELSE Head(ns) + SumInts(Tail(ns))

SumOver(ms, F(_)) == SumInts(Array([i \in DOMAIN ms |-> F(ms[i])]))

Count(ms, P(_)) == Len(SelectSeq(ms, P))

\* tally with forfeits left out of the loss count.
tallyForfeitLossUncounted(ms, map) ==
  [wins |-> Count(ms, LAMBDA m : m.result \in {WIN, FORFEIT_WIN}),
   losses |-> Count(ms, LAMBDA m : m.result = LOSS),
   draws |-> Count(ms, LAMBDA m : m.result = DRAW),
   byes |-> Count(ms, LAMBDA m : m.result = BYE),
   mp |-> SumOver(ms, LAMBDA m : ptsFromResult(m.result, map)),
   gWins |-> SumOver(ms, LAMBDA m : m.gameWins),
   gLosses |-> SumOver(ms, LAMBDA m : m.gameLosses),
   gDraws |-> SumOver(ms, LAMBDA m : m.gameDraws),
   penalties |-> SumOver(ms, LAMBDA m : m.penalties),
   opponents |-> LET real == SelectSeq(ms, LAMBDA m : isRealOpponent(m.opponentId))
                 IN  Array([i \in DOMAIN real |-> real[i].opponentId]),
   roundsPlayed |-> Len(ms)]

tally(ms, map) ==
  [wins |-> Count(ms, LAMBDA m : m.result \in {WIN, FORFEIT_WIN}),
   losses |-> Count(ms, LAMBDA m : m.result \in {LOSS, FORFEIT_LOSS}),
   draws |-> Count(ms, LAMBDA m : m.result = DRAW),
   byes |-> Count(ms, LAMBDA m : m.result = BYE),
   mp |-> SumOver(ms, LAMBDA m : ptsFromResult(m.result, map)),
   gWins |-> SumOver(ms, LAMBDA m : m.gameWins),
   gLosses |-> SumOver(ms, LAMBDA m : m.gameLosses),
   gDraws |-> SumOver(ms, LAMBDA m : m.gameDraws),
   penalties |-> SumOver(ms, LAMBDA m : m.penalties),
   opponents |-> LET real == SelectSeq(ms, LAMBDA m : isRealOpponent(m.opponentId))
                 IN  Array([i \in DOMAIN real |-> real[i].opponentId]),
   roundsPlayed |-> Len(ms)]

computeMWP(t) ==
  div(RAdd(R(t.wins), RMul(Half, R(t.draws))), R(t.wins + t.losses + t.draws))

computeGWP(t, floor) ==
  LET byeGWins == 2 * t.byes
      num == RAdd(R(t.gWins + byeGWins), RMul(Half, R(t.gDraws)))
      den == R(t.gWins + t.gLosses + t.gDraws + byeGWins)
  IN  RMax(floor, div(num, den))

\* An opponent percentage over all real records of the opponent, those
\* against the subject included.
computeOpponentPctInclSubject(subjectId, oppMatches, isGamePct) ==
  LET ms == SelectSeq(oppMatches, LAMBDA m : m.opponentId # NoOpponent /\ m.result # BYE)
  IN  IF ~isGamePct
      THEN LET w == Count(ms, LAMBDA m : m.result \in {WIN, FORFEIT_WIN})
               l == Count(ms, LAMBDA m : m.result \in {LOSS, FORFEIT_LOSS})
               d == Count(ms, LAMBDA m : m.result = DRAW)
           IN  div(RAdd(R(w), RMul(Half, R(d))), R(w + l + d))
      ELSE LET gw == SumOver(ms, LAMBDA m : m.gameWins)
               gl == SumOver(ms, LAMBDA m : m.gameLosses)
               gd == SumOver(ms, LAMBDA m : m.gameDraws)
           IN  div(RAdd(R(gw), RMul(Half, R(gd))), R(gw + gl + gd))

computeOpponentPctExclSubject(subjectId, oppMatches, isGamePct) ==
  LET ms == SelectSeq(oppMatches, LAMBDA m :
              m.opponentId # NoOpponent /\ m.opponentId # subjectId /\ m.result # BYE)
  IN  IF ~isGamePct
      THEN LET w == Count(ms, LAMBDA m : m.result \in {WIN, FORFEIT_WIN})
               l == Count(ms, LAMBDA m : m.result \in {LOSS, FORFEIT_LOSS})
               d == Count(ms, LAMBDA m : m.result = DRAW)
           IN  div(RAdd(R(w), RMul(Half, R(d))), R(w + l + d))
      ELSE LET gw == SumOver(ms, LAMBDA m : m.gameWins)
               gl == SumOver(ms, LAMBDA m : m.gameLosses)
               gd == SumOver(ms, LAMBDA m : m.gameDraws)
           IN  div(RAdd(R(gw), RMul(Half, R(gd))), R(gw + gl + gd))

avgWithFloor(values, floor) ==
  IF Len(values) = 0 THEN R(0)
  ELSE RDiv(RSum(Array([i \in DOMAIN values |-> RMax(floor, values[i])])), R(Len(values)))

clamp01(x) == RMax(R(0), RMin(R(1), x))

\* ------------------------------------------------------------------ tie blocks
\* Head-to-head scores in half points (2 per win, 1 per draw), counted over
\* the records each tied player owns against another tied player.
\* The result is <<>> where the code returns null.
\* Head-to-head scores counted over every real opponent, tied or not.
headToHeadOrderAllOpponents(tied, byPlayer) ==
  LET inTied == Range(tied)
      score(a) == SumOver(byPlayer[a], LAMBDA m :
                    IF ~isRealOpponent(m.opponentId) THEN 0
                    ELSE IF m.result \in {WIN, FORFEIT_WIN} THEN 2
                    ELSE IF m.result = DRAW THEN 1
                    ELSE 0)
      scores == Table([a \in inTied |-> score(a)])
      ordered == StableSort(tied, LAMBDA x, y : scores[x] > scores[y])
  IN  IF \E k \in 2..Len(ordered) : scores[ordered[k]] = scores[ordered[k - 1]]
      THEN <<>>
      ELSE ordered

headToHeadOrder(tied, byPlayer) ==
  LET inTied == Range(tied)
      score(a) == SumOver(byPlayer[a], LAMBDA m :
                    IF ~isRealOpponent(m.opponentId) \/ m.opponentId \notin inTied THEN 0
                    ELSE IF m.result \in {WIN, FORFEIT_WIN} THEN 2
                    ELSE IF m.result = DRAW THEN 1
                    ELSE 0)
      scores == Table([a \in inTied |-> score(a)])
      ordered == StableSort(tied, LAMBDA x, y : scores[x] > scores[y])
  IN  IF \E k \in 2..Len(ordered) : scores[ordered[k]] = scores[ordered[k - 1]]
      THEN <<>>
      ELSE ordered

sameTieKey(a, b) ==
  /\ a.matchPoints = b.matchPoints
  /\ a.omwp = b.omwp
  /\ a.gwp = b.gwp
  /\ a.ogwp = b.ogwp
  /\ a.sb = b.sb

allPenaltiesEqual(block) ==
  \A i \in DOMAIN block : block[i].penalties = block[1].penalties

\* A comparator that looks at OGW% before GWP.
PrimaryBeforeOgwpFirst(a, b) ==
  IF b.matchPoints # a.matchPoints THEN b.matchPoints < a.matchPoints
  ELSE IF b.omwp # a.omwp THEN RLt(b.omwp, a.omwp)
  ELSE IF b.ogwp # a.ogwp THEN RLt(b.ogwp, a.ogwp)
  ELSE IF b.gwp # a.gwp THEN RLt(b.gwp, a.gwp)
  ELSE IF b.sb # a.sb THEN RLt(b.sb, a.sb)
  ELSE FALSE

\* The comparator of the primary sort: negative for (a, b) when a goes first.
PrimaryBefore(a, b) ==
  IF b.matchPoints # a.matchPoints THEN b.matchPoints < a.matchPoints
  ELSE IF b.omwp # a.omwp THEN RLt(b.omwp, a.omwp)
  ELSE IF b.gwp # a.gwp THEN RLt(b.gwp, a.gwp)
  ELSE IF b.ogwp # a.ogwp THEN RLt(b.ogwp, a.ogwp)
  ELSE IF b.sb # a.sb THEN RLt(b.sb, a.sb)
  ELSE FALSE

\* block.sort by penalties alone.
PenaltiesOnly(block, seed) ==
  StableSort(block, LAMBDA a, b : a.penalties < b.penalties)

\* block.sort by penalties, then by the seeded hash when all penalties are equal.
PenaltiesThenSeed(block, seed) ==
  LET byPen == StableSort(block, LAMBDA a, b : a.penalties < b.penalties)
      key == Table([id \in {block[i].playerId : i \in DOMAIN block} |->
                      fnv1a(seed \o CharCodes(id))])
  IN  IF allPenaltiesEqual(byPen)
      THEN StableSort(byPen, LAMBDA a, b : HashLt(key[a.playerId], key[b.playerId]))
      ELSE byPen

\* The order of one tie block (more than one row): head to head, then
\* penalties, then the seeded fallback.
ResolveBlock(block, byPlayer, applyHeadToHead, seed) ==
  LET ids == Array([i \in DOMAIN block |-> block[i].playerId])
      order == IF applyHeadToHead THEN headToHeadOrder(ids, byPlayer) ELSE <<>>
      pos(id) == CHOOSE k \in DOMAIN order : order[k] = id
  IN  IF applyHeadToHead /\ Len(order) > 0
      THEN StableSort(block, LAMBDA a, b : pos(a.playerId) < pos(b.playerId))
      ELSE PenaltiesThenSeed(block, seed)

\* End j of the tie block [i, j) that starts at row i (1-based, j exclusive).
RECURSIVE BlockEnd(_, _, _)
BlockEnd(rows, i, j) ==
  IF j <= Len(rows) /\ sameTieKey(rows[i], rows[j]) THEN BlockEnd(rows, i, j + 1) ELSE j

\* The while loop over the tie blocks, from row i on.
RECURSIVE TieBlocks(_, _, _, _, _)
TieBlocks(rows, i, byPlayer, applyHeadToHead, seed) ==
  IF i > Len(rows) THEN rows
  ELSE LET j == BlockEnd(rows, i, i + 1)
           next == IF j - i > 1
                   THEN SubSeq(rows, 1, i - 1)
                        \o ResolveBlock(SubSeq(rows, i, j - 1), byPlayer, applyHeadToHead, seed)
                        \o SubSeq(rows, j, Len(rows))
                   ELSE rows
       IN  TieBlocks(next, j, byPlayer, applyHeadToHead, seed)

\* Ranks in which the rows of a tie share the rank of its first row.
AssignRanksShared(rows) ==
  Array([i \in DOMAIN rows |->
    [rows[i] EXCEPT !.rank = CHOOSE j \in 1..i :
                               /\ sameTieKey(rows[j], rows[i])
                               /\ \A k \in 1..(j - 1) : ~sameTieKey(rows[k], rows[i])]])

\* rows.forEach((r, idx) => (r.rank = idx + 1))
AssignRanks(rows) == Array([i \in DOMAIN rows |-> [rows[i] EXCEPT !.rank = i]])

\* ------------------------------------------------------------------ standings core
\* Every id that owns a record or is named as an opponent.
IdsIn(matches) ==
  {matches[i].playerId : i \in DOMAIN matches}
    \cup {matches[i].opponentId : i \in {k \in DOMAIN matches : matches[k].opponentId # NoOpponent}}

\* A Sonneborn-Berger credit that also pays for losses.
sbCreditForLosses(result, oppMP) ==
  IF result = DRAW THEN RMul(Half, R(oppMP)) ELSE R(oppMP)

\* What one real record adds to sb, given the opponent's final match points.
sbCredit(result, oppMP) ==
  IF result \in {WIN, FORFEIT_WIN} THEN R(oppMP)
  ELSE IF result = DRAW THEN RMul(Half, R(oppMP))
  ELSE R(0)

\* A points map whose missing entries count nothing.
PointsMapNoDefaults(points) ==
  [win  |-> IF "win" \in DOMAIN points THEN points.win ELSE 0,
   draw |-> IF "draw" \in DOMAIN points THEN points.draw ELSE 0,
   loss |-> IF "loss" \in DOMAIN points THEN points.loss ELSE 0,
   bye  |-> IF "bye" \in DOMAIN points THEN points.bye ELSE 0]

\* pt: points.win ?? 3, points.draw ?? 1, points.loss ?? 0, points.bye ?? 3
PointsMap(points) ==
  [win  |-> IF "win" \in DOMAIN points THEN points.win ELSE DefaultPoints.win,
   draw |-> IF "draw" \in DOMAIN points THEN points.draw ELSE DefaultPoints.draw,
   loss |-> IF "loss" \in DOMAIN points THEN points.loss ELSE DefaultPoints.loss,
   bye  |-> IF "bye" \in DOMAIN points THEN points.bye ELSE DefaultPoints.bye]

\* A virtual opponent for everyone, bye or not.
VirtualByesForAll(enabled, byes, pct) ==
  IF enabled THEN [k \in 1..(byes + 1) |-> clamp01(pct)] ELSE <<>>

\* The synthetic opponents of the virtual-bye treatment: one value per bye.
VirtualByes(enabled, byes, pct) ==
  IF enabled /\ byes > 0 THEN [k \in 1..byes |-> clamp01(pct)] ELSE <<>>

\* Steps 1-6 of computeSwissStandings, which computeRoundRobinStandings
\* repeats line for line (without the virtual bye and with its own fallback
\* tag): tallies, OMW/OGW, Sonneborn-Berger, rows, primary sort, tie blocks,
\* ranks.  input is the normalized history.
StandingsOf(input, opt, vbEnabled, tag) ==
  LET pctFloor == opt.opponentPctFloor
      pt == PointsMap(opt.points)
      playerIds == PlayerIdsOf(input)
      byPlayer == Table([pid \in IdsIn(input) |-> groupByPlayer(input, pid)])
      tl == Table([pid \in Range(playerIds) |-> tally(byPlayer[pid], pt)])
      omw(pid) ==
        [k \in DOMAIN tl[pid].opponents |->
           computeOpponentPctExclSubject(pid, byPlayer[tl[pid].opponents[k]], FALSE)]
        \o VirtualByes(vbEnabled, tl[pid].byes, opt.vbMwp)
      ogw(pid) ==
        [k \in DOMAIN tl[pid].opponents |->
           computeOpponentPctExclSubject(pid, byPlayer[tl[pid].opponents[k]], TRUE)]
        \o VirtualByes(vbEnabled, tl[pid].byes, opt.vbGwp)
      finalMP(id) == IF id \in Range(playerIds) THEN tl[id].mp ELSE 0
      sbTerm(m) ==
        IF ~isRealOpponent(m.opponentId) THEN R(0)
        ELSE sbCredit(m.result, finalMP(m.opponentId))
      sbOf(pid) == RSum(Array([k \in DOMAIN byPlayer[pid] |-> sbTerm(byPlayer[pid][k])]))
      row(pid) ==
        LET t == tl[pid]
        IN  [rank |-> 0,
             playerId |-> pid,
             matchPoints |-> t.mp,
             mwp |-> computeMWP(t),
             gwp |-> computeGWP(t, pctFloor),
             wins |-> t.wins,
             losses |-> t.losses,
             draws |-> t.draws,
             byes |-> t.byes,
             roundsPlayed |-> t.roundsPlayed,
             gameWins |-> t.gWins + 2 * t.byes,
             gameLosses |-> t.gLosses,
             gameDraws |-> t.gDraws,
             penalties |-> t.penalties,
             opponents |-> t.opponents,
             omwp |-> avgWithFloor(omw(pid), pctFloor),
             ogwp |-> avgWithFloor(ogw(pid), pctFloor),
             sb |-> sbOf(pid)]
      rows == Array([k \in DOMAIN playerIds |-> row(playerIds[k])])
      sorted == StableSort(rows, PrimaryBefore)
  IN  AssignRanks(TieBlocks(sorted, 1, byPlayer, opt.applyHeadToHead, opt.eventId \o tag))

\* ------------------------------------------------------------------ Swiss standings
flipResult(r) ==
  CASE r = WIN -> LOSS
    [] r = LOSS -> WIN
    [] r = DRAW -> DRAW
    [] r = BYE -> BYE
    [] r = FORFEIT_WIN -> FORFEIT_LOSS
    [] r = FORFEIT_LOSS -> FORFEIT_WIN

\* key(round, a, b) of normalizeMatchesForMirroring: `${round}|${a}|${b}`
MirrorKey(round, a, b) ==
  DecimalDigits(round) \o <<124>> \o CharCodes(a) \o <<124>> \o CharCodes(b)

\* The second loop of normalizeMatchesForMirroring from record i on: out and
\* seen as they stand before record i is visited.
RECURSIVE MirrorLoop(_, _, _, _)
MirrorLoop(matches, i, out, seen) ==
  IF i > Len(matches) THEN out
  ELSE LET m == matches[i]
           kBA == MirrorKey(m.round, m.opponentId, m.playerId)
       IN  IF m.opponentId = NoOpponent \/ kBA \in seen
           THEN MirrorLoop(matches, i + 1, out, seen)
           ELSE MirrorLoop(matches, i + 1,
                  Append(out, [id |-> [base |-> m.id.base, mirror |-> TRUE],
                               round |-> m.round,
                               playerId |-> m.opponentId,
                               opponentId |-> m.playerId,
                               result |-> flipResult(m.result),
                               gameWins |-> m.gameLosses,
                               gameLosses |-> m.gameWins,
                               gameDraws |-> m.gameDraws,
                               penalties |-> 0]),
                  seen \cup {kBA})

normalizeMatchesForMirroring(matches) ==
  MirrorLoop(matches, 1, matches,
    {MirrorKey(matches[i].round, matches[i].playerId, matches[i].opponentId) :
       i \in {k \in DOMAIN matches : matches[k].opponentId # NoOpponent}})

computeSwissStandings(matches, options) ==
  LET input == IF options.acceptSingleEntryMatches
               THEN normalizeMatchesForMirroring(matches)
               ELSE matches
  IN  StandingsOf(input, options, options.vbEnabled, SwissFallbackTag)

\* ------------------------------------------------------------------ round-robin standings
\* a < b on strings: the order of their UTF-16 code units, a proper prefix first.
RECURSIVE StringLt(_, _)
StringLt(s, t) ==
  IF t = <<>> THEN FALSE
  ELSE IF s = <<>> THEN TRUE
  ELSE IF Head(s) # Head(t) THEN Head(s) < Head(t)
  ELSE StringLt(Tail(s), Tail(t))

\* pairKey(a, b, round): `${round}::${x}::${y}` with x the smaller of the two ids.
pairKey(a, b, round) ==
  LET lt == StringLt(CharCodes(a), CharCodes(b))
      x  == IF lt THEN a ELSE b
      y  == IF lt THEN b ELSE a
  IN  DecimalDigits(round) \o <<58, 58>> \o CharCodes(x) \o <<58, 58>> \o CharCodes(y)

\* Keys of `seen` in insertion order.
SeenKeys(matches) ==
  LET real == SelectSeq(matches, LAMBDA m : m.opponentId # NoOpponent)
  IN  Distinct(Array([i \in DOMAIN real |->
        pairKey(real[i].playerId, real[i].opponentId, real[i].round)]))

\* seen[key]: count and sample (the first record of the key).
SeenCount(matches, key) ==
  Count(matches, LAMBDA m :
    m.opponentId # NoOpponent /\ pairKey(m.playerId, m.opponentId, m.round) = key)

SeenSample(matches, key) ==
  LET i == CHOOSE i \in DOMAIN matches :
             /\ matches[i].opponentId # NoOpponent
             /\ pairKey(matches[i].playerId, matches[i].opponentId, matches[i].round) = key
             /\ \A j \in 1..(i - 1) :
                  \/ matches[j].opponentId = NoOpponent
                  \/ pairKey(matches[j].playerId, matches[j].opponentId, matches[j].round) # key
  IN  matches[i]

\* Strict single-entry detection: some key of seen has exactly one record.
MissingMirror(matches) ==
  \E i \in DOMAIN SeenKeys(matches) : SeenCount(matches, SeenKeys(matches)[i]) = 1

RRInvResult(r) ==
  CASE r = WIN -> LOSS
    [] r = LOSS -> WIN
    [] r = FORFEIT_WIN -> FORFEIT_LOSS
    [] r = FORFEIT_LOSS -> FORFEIT_WIN
    [] OTHER -> DRAW

\* The reconstructed mirror of a single record.
RRMirror(sample) ==
  [id |-> [base |-> sample.id.base, mirror |-> TRUE],
   round |-> sample.round,
   playerId |-> sample.opponentId,
   opponentId |-> sample.playerId,
   result |-> RRInvResult(sample.result),
   gameWins |-> sample.gameLosses,
   gameLosses |-> sample.gameWins,
   gameDraws |-> sample.gameDraws,
   penalties |-> sample.penalties]

\* normalized: the history followed by the mirrors of the single records, in
\* the order of the keys of `seen`.
RRNormalize(matches) ==
  LET keys == SeenKeys(matches)
      single == SelectSeq(keys, LAMBDA k : SeenCount(matches, k) = 1)
  IN  matches \o Array([i \in DOMAIN single |-> RRMirror(SeenSample(matches, single[i]))])

\* threw = TRUE (and no rows) where the code throws.
computeRoundRobinStandings(matches, options) ==
  IF ~options.acceptSingleEntryMatches /\ MissingMirror(matches)
  THEN [threw |-> TRUE, rows |-> <<>>]
  ELSE [threw |-> FALSE,
        rows |-> StandingsOf(IF options.acceptSingleEntryMatches
                             THEN RRNormalize(matches) ELSE matches,
                             options, FALSE, RRFallbackTag)]

\* ------------------------------------------------------------------ Swiss pairing
\* makeStandings of the pairing tests: hand-made rows, rank = position;
\* threw = TRUE (and no rows) when the two lists differ in length.
makeStandings(ids, mp) ==
  IF Len(ids) # Len(mp) THEN [threw |-> TRUE, rows |-> <<>>]
  ELSE [threw |-> FALSE,
        rows |-> Array([i \in DOMAIN ids |->
          [rank |-> i, playerId |-> ids[i], matchPoints |-> mp[i],
           mwp |-> <<3, 5>>, omwp |-> Half, gwp |-> <<3, 5>>, ogwp |-> Half, sb |-> R(0),
           wins |-> 0, losses |-> 0, draws |-> 0, byes |-> 0, roundsPlayed |-> 0,
           gameWins |-> 0, gameLosses |-> 0, gameDraws |-> 0, penalties |-> 0,
           opponents |-> <<>>]])]

NoBye == "none"

\* a and b have already met: some record of one names the other as opponent.
HasPlayed(history, a, b) ==
  \E i \in DOMAIN history :
    \/ history[i].playerId = a /\ history[i].opponentId = b
    \/ history[i].playerId = b /\ history[i].opponentId = a

\* p has a bye record in the history.
HadBye(history, p) ==
  \E i \in DOMAIN history : history[i].playerId = p /\ history[i].opponentId = NoOpponent

\* Bye selection that looks at no bye record: always the lowest-ranked row.
SelectByeLowest(sorted, history) == sorted[Len(sorted)].playerId

\* Bye selection over the rows in rank order: the lowest-ranked competitor
\* without a bye record, the lowest-ranked overall when all have one.
SelectBye(sorted, history) ==
  LET fresh == {k \in DOMAIN sorted : ~HadBye(history, sorted[k].playerId)}
  IN  IF fresh # {}
      THEN sorted[CHOOSE k \in fresh : \A j \in fresh : j <= k].playerId
      ELSE sorted[Len(sorted)].playerId

\* Score-group partitioner: two rows are in one group when they share the
\* five-key tie signature.
SameGroup(a, b) == sameTieKey(a, b)

\* May the best unpaired row p take c under the rules in force?
\* rules.rematch: a pair that already met may be used.
\* rules.unprotect: a protected top-N row may be paired below its group.
Legal(p, c, history, rules, protectTopN) ==
  /\ rules.rematch \/ ~HasPlayed(history, p.playerId, c.playerId)
  /\ rules.unprotect \/ p.rank > protectTopN \/ SameGroup(p, c)

\* Removal of row i only: row j stays among the unpaired.
WithoutFirstOnly(un, i, j) ==
  SelectSeq(Array([k \in DOMAIN un |-> IF k = i THEN <<>> ELSE <<un[k]>>]), LAMBDA x : x # <<>>)

\* The unpaired rows once rows i and j are paired (each kept row wrapped).
Without(un, i, j) == SelectSeq(Array([k \in DOMAIN un |-> IF k \in {i, j} THEN <<>> ELSE <<un[k]>>]),
                               LAMBDA x : x # <<>>)

\* Depth-first search with undo.  un: the unpaired rows, best first; k: the
\* next candidate for un[1] (nearest in rank first); left: undo steps left.
\* Returns [ok, pairs, left]; ok = FALSE with left = 0 when the bound ran out.
RECURSIVE SearchFrom(_, _, _, _, _, _)
SearchFrom(un, k, left, history, rules, protectTopN) ==
  IF un = <<>> THEN [ok |-> TRUE, pairs |-> <<>>, left |-> left]
  ELSE IF k > Len(un) THEN [ok |-> FALSE, pairs |-> <<>>, left |-> left]
  ELSE IF ~Legal(un[1], un[k], history, rules, protectTopN)
  THEN SearchFrom(un, k + 1, left, history, rules, protectTopN)
  ELSE LET rest == Without(un, 1, k)
           sub == SearchFrom(Array([i \in DOMAIN rest |-> rest[i][1]]), 2, left,
                             history, rules, protectTopN)
       IN  IF sub.ok
           THEN [ok |-> TRUE, pairs |-> <<<<un[1], un[k]>>>> \o sub.pairs, left |-> sub.left]
           ELSE IF sub.left = 0
           THEN [ok |-> FALSE, pairs |-> <<>>, left |-> 0]
           ELSE SearchFrom(un, k + 1, sub.left - 1, history, rules, protectTopN)

Strict(avoid) == [rematch |-> ~avoid, unprotect |-> FALSE]
AllowRematch == [rematch |-> TRUE, unprotect |-> FALSE]
AllowAll == [rematch |-> TRUE, unprotect |-> TRUE]

\* A ladder that stops after the rematch rung: protection is never lifted.
MatchingProtectedOnly(un, history, options) ==
  LET s1 == SearchFrom(un, 2, options.maxBacktrack, history,
                       Strict(options.avoidRematches), options.protectTopN)
      s2 == SearchFrom(un, 2, options.maxBacktrack, history, AllowRematch, options.protectTopN)
  IN  IF s1.ok THEN s1.pairs ELSE s2.pairs

\* The relaxation ladder: strict, then rematches allowed, then top-N
\* protection lifted too; each rung searches under the attempt bound.
Matching(un, history, options) ==
  LET s1 == SearchFrom(un, 2, options.maxBacktrack, history,
                       Strict(options.avoidRematches), options.protectTopN)
      s2 == SearchFrom(un, 2, options.maxBacktrack, history, AllowRematch, options.protectTopN)
      s3 == SearchFrom(un, 2, options.maxBacktrack, history, AllowAll, options.protectTopN)
  IN  IF s1.ok THEN s1.pairs ELSE IF s2.ok THEN s2.pairs ELSE s3.pairs

\* Bookkeeping that records no rematch.
RematchesUnrecorded(pairs, history, options) == <<>>

\* rematchesUsed: the returned pairs that had already met, recorded when
\* rematches are to be avoided.
RematchesUsed(pairs, history, options) ==
  IF options.avoidRematches
  THEN SelectSeq(pairs, LAMBDA q : HasPlayed(history, q.a, q.b))
  ELSE <<>>

generateSwissPairings(standings, history, options) ==
  LET sorted == StableSort(standings, LAMBDA a, b : a.rank < b.rank)
      odd == Len(sorted) % 2 = 1
      bye == IF odd THEN SelectBye(sorted, history) ELSE NoBye
      un == SelectSeq(sorted, LAMBDA r : r.playerId # bye)
      found == Matching(un, history, options)
      pairs == Array([i \in DOMAIN found |-> [a |-> found[i][1].playerId, b |-> found[i][2].playerId]])
      floated == {found[i][1].playerId : i \in {k \in DOMAIN found : ~SameGroup(found[k][1], found[k][2])}}
  IN  [pairings |-> pairs,
       bye |-> bye,
       downfloats |-> Table([id \in floated |-> 1]),
       rematchesUsed |-> RematchesUsed(pairs, history, options)]

\* ------------------------------------------------------------------ the caller's inputs
Players == {"A", "B", "C", "D"}

\* The outcomes a real record reports, with the game score
\* (gameWins, gameLosses, gameDraws) entered with it.
Outcomes ==
  {<<WIN, <<2, 0, 0>>>>, <<WIN, <<2, 1, 0>>>>, <<LOSS, <<1, 2, 0>>>>, <<DRAW, <<1, 1, 1>>>>,
   <<FORFEIT_WIN, <<0, 0, 0>>>>, <<FORFEIT_LOSS, <<0, 0, 0>>>>}

PenaltyCounts == {0, 1}

\* "E1"
EventE1 == <<69, 49>>

\* "rankings-core"
EventDefault == <<114, 97, 110, 107, 105, 110, 103, 115, 45>> \o <<99, 111, 114, 101>>

\* The options of a call that passes none.
DefaultOptions ==
  [eventId |-> EventDefault,
   applyHeadToHead |-> TRUE,
   opponentPctFloor |-> PCT_FLOOR_DEFAULT,
   points |-> DefaultPoints,
   acceptSingleEntryMatches |-> FALSE,
   vbEnabled |-> FALSE,
   vbMwp |-> Half,
   vbGwp |-> Half]

\* A call that passes { eventId: "E1" } and nothing else.
OptionsE1 == [DefaultOptions EXCEPT !.eventId = EventE1]

\* The option values the caller passes to the standings engines.
StandingsOptions ==
  {[OptionsE1 EXCEPT !.acceptSingleEntryMatches = s] : s \in BOOLEAN}

Record(n, r, p, o, res, g, pen) ==
  [id |-> [base |-> n, mirror |-> FALSE],
   round |-> r,
   playerId |-> p,
   opponentId |-> o,
   result |-> res,
   gameWins |-> g[1],
   gameLosses |-> g[2],
   gameDraws |-> g[3],
   penalties |-> pen]

\* ------------------------------------------------------------------ state
VARIABLES
  history,   \* the match records the caller has collected, in order of entry
  round,     \* the round being played
  call,      \* the last engine call: [op, options, threw], or NoCall
  rows,      \* standing rows: returned by a standings call (none when it
             \* threw), or made by hand and handed to the pairing engine
  pairing,   \* what generateSwissPairings returned, or NoPairing
  players,   \* the player list handed to the round-robin scheduler
  returned,  \* what the last scheduler call returned, or NoReturn
  bridge     \* the module state of the WASM bridge and of the Elo module's
             \* loader: [wasmReady, promises, calls, eloWasm]

vars == <<history, round, call, rows, pairing, players, returned, bridge>>

NoCall == [op |-> "none"]
NoPairing == [pairings |-> <<>>, bye |-> NoBye, downfloats |-> <<>>, rematchesUsed |-> <<>>]
NoReturn == [threw |-> FALSE]
\* let wasmReady = null; let _wasm = null; nothing loaded, nobody called.
NoBridge == [wasmReady |-> 0, promises |-> <<>>, calls |-> <<>>, eloWasm |-> "null"]

Init ==
  /\ history = <<>>
  /\ round = 1
  /\ call = NoCall
  /\ rows = <<>>
  /\ pairing = NoPairing
  /\ players = <<>>
  /\ returned = NoReturn
  /\ bridge = NoBridge

\* The caller records one side of a real match of the current round.
ReportMatch(p, o, res, g, pen) ==
  /\ call = NoCall
  /\ Len(history) < MaxMatches
  /\ p # o
  /\ history' = Append(history, Record(Len(history) + 1, round, p, o, res, g, pen))
  /\ UNCHANGED <<round, call, rows, pairing, players, returned, bridge>>

\* The caller records a bye of the current round.
ReportBye(p, pen) ==
  /\ call = NoCall
  /\ Len(history) < MaxMatches
  /\ history' = Append(history,
                  Record(Len(history) + 1, round, p, NoOpponent, BYE, <<0, 0, 0>>, pen))
  /\ UNCHANGED <<round, call, rows, pairing, players, returned, bridge>>

\* The tournament moves on to the next round.
NextRound ==
  /\ call = NoCall
  /\ history # <<>>
  /\ history[Len(history)].round = round
  /\ Len(history) < MaxMatches
  /\ round' = round + 1
  /\ UNCHANGED <<history, call, rows, pairing, players, returned, bridge>>

CallSwissStandings(options) ==
  /\ call = NoCall
  /\ call' = [op |-> "swiss", options |-> options, threw |-> FALSE]
  /\ rows' = computeSwissStandings(history, options)
  /\ UNCHANGED <<history, round, pairing, players, returned, bridge>>

CallRoundRobinStandings(options) ==
  /\ call = NoCall
  /\ LET ret == computeRoundRobinStandings(history, options)
     IN  /\ call' = [op |-> "roundrobin", options |-> options, threw |-> ret.threw]
         /\ rows' = ret.rows
  /\ UNCHANGED <<history, round, pairing, players, returned, bridge>>

Next ==
  \/ \E p \in Players, o \in Players, oc \in Outcomes, pen \in PenaltyCounts :
        ReportMatch(p, o, oc[1], oc[2], pen)
  \/ \E p \in Players, pen \in PenaltyCounts : ReportBye(p, pen)
  \/ NextRound
  \/ \E options \in StandingsOptions : CallSwissStandings(options)
  \/ \E options \in StandingsOptions : CallRoundRobinStandings(options)

Spec == Init /\ [][Next]_vars

\* ------------------------------------------------------------------ pairing runs
\* Largest field handed to the pairing engine.
MaxField == 5
\* Most pairs that have already met in the history handed to it.
MaxMet == 3

Roster == <<"A", "B", "C", "D", "E", "F">>

\* Match points of a hand-made standings list: non-increasing along the ranks.
PointsLists(n) ==
  {mp \in [1..n -> {3, 6}] : \A i \in 1..(n - 1) : mp[i] >= mp[i + 1]}

UnorderedPairs(n) == {<<i, j>> \in (1..n) \X (1..n) : i < j}

\* The mirrored records (both draws) of the pairs in met, then a bye record
\* for each player in byes, numbered in order.
RECURSIVE HistoryOf(_, _, _)
HistoryOf(met, byes, n) ==
  IF met # {}
  THEN LET q == CHOOSE q \in met : \A x \in met : q[1] < x[1] \/ (q[1] = x[1] /\ q[2] <= x[2])
       IN  <<Record(n, 1, Roster[q[1]], Roster[q[2]], DRAW, <<1, 1, 1>>, 0),
             Record(n + 1, 1, Roster[q[2]], Roster[q[1]], DRAW, <<1, 1, 1>>, 0)>>
           \o HistoryOf(met \ {q}, byes, n + 2)
  ELSE IF byes # {}
  THEN LET b == CHOOSE b \in byes : \A x \in byes : b <= x
       IN  <<Record(n, 2, Roster[b], NoOpponent, BYE, <<0, 0, 0>>, 0)>>
           \o HistoryOf(met, byes \ {b}, n + 1)
  ELSE <<>>

DefaultPairingOptions ==
  [eventId |-> EventE1, avoidRematches |-> TRUE, protectTopN |-> 0, maxBacktrack |-> 2000]

PairingOptions ==
  {[DefaultPairingOptions EXCEPT !.avoidRematches = a, !.protectTopN = t, !.maxBacktrack = m] :
     a \in BOOLEAN, t \in {0, 1}, m \in {0, 2000}}

\* Who already has a bye record: nobody, one player, all but one, or all.
ByeSets(n) ==
  IF n % 2 = 0 THEN {{}}
  ELSE {S \in SUBSET (1..n) : Cardinality(S) <= 1 \/ Cardinality(S) >= n - 1}

InitPairing ==
  /\ \E n \in 2..MaxField :
     \E met \in SUBSET UnorderedPairs(n), byes \in ByeSets(n) :
       /\ Cardinality(met) <= MaxMet
       /\ history = HistoryOf(met, byes, 1)
       /\ \E mp \in PointsLists(n) : rows = makeStandings(SubSeq(Roster, 1, n), mp).rows
  /\ round = 3
  /\ call = NoCall
  /\ pairing = NoPairing
  /\ players = <<>>
  /\ returned = NoReturn
  /\ bridge = NoBridge

CallSwissPairings(options) ==
  /\ call = NoCall
  /\ call' = [op |-> "pairings", options |-> options, threw |-> FALSE]
  /\ pairing' = generateSwissPairings(rows, history, options)
  /\ UNCHANGED <<history, round, rows, players, returned, bridge>>

NextPairing == \E options \in PairingOptions : CallSwissPairings(options)

SpecPairing == InitPairing /\ [][NextPairing]_vars

\* ------------------------------------------------------------------ properties: standings
StandingsReturned == call.op \in {"swiss", "roundrobin"} /\ ~call.threw

RowIndex == DOMAIN rows

\* The sum of a counter over the rows.
SumRows(F(_)) == SumInts(Array([i \in RowIndex |-> F(rows[i])]))

\* The real matches of a history: round and the two competitors.
MatchKey(m) == <<m.round, {m.playerId, m.opponentId}>>
RealRecords(h) == {i \in DOMAIN h : h[i].opponentId # NoOpponent}
RealMatches(h) == {MatchKey(h[i]) : i \in RealRecords(h)}
RecordsOf(h, key) == {i \in RealRecords(h) : MatchKey(h[i]) = key}

\* The outcome the other side of a match reports.
Opposite(r) ==
  CASE r = WIN -> LOSS
    [] r = LOSS -> WIN
    [] r = FORFEIT_WIN -> FORFEIT_LOSS
    [] r = FORFEIT_LOSS -> FORFEIT_WIN
    [] OTHER -> r

\* Every real match is reported by one side only.
OneSided(h) == \A key \in RealMatches(h) : Cardinality(RecordsOf(h, key)) = 1

\* The records computeSwissStandings tallies: the records given and, where
\* missing sides are accepted, the mirrors the engine adds to them.
SwissInput(h, accept) == IF accept THEN normalizeMatchesForMirroring(h) ELSE h

\* Every real match has two records, one of each side, with opposite outcomes.
WellReported(h) ==
  \A key \in RealMatches(h) :
    LET I == RecordsOf(h, key)
    IN  /\ Cardinality(I) = 2
        /\ \E i, j \in I : /\ h[i].playerId = h[j].opponentId
                           /\ h[i].result = Opposite(h[j].result)

\* The mirror a caller writes by hand for a one-sided record.
HandMirror(m) ==
  [id |-> [base |-> m.id.base, mirror |-> TRUE],
   round |-> m.round,
   playerId |-> m.opponentId,
   opponentId |-> m.playerId,
   result |-> Opposite(m.result),
   gameWins |-> m.gameLosses,
   gameLosses |-> m.gameWins,
   gameDraws |-> m.gameDraws,
   penalties |-> 0]

\* A one-sided history with each missing side written in after its record.
RECURSIVE HandMirrored(_)
HandMirrored(h) ==
  IF h = <<>> THEN <<>>
  ELSE (IF Head(h).opponentId = NoOpponent
        THEN <<Head(h)>>
        ELSE <<Head(h), HandMirror(Head(h))>>) \o HandMirrored(Tail(h))

Reorder(h, f) == Array([i \in DOMAIN h |-> h[f[i]]])

\* The drawn matches a competitor took part in.
DrawnMatches(h, p) ==
  {MatchKey(h[i]) : i \in {k \in RealRecords(h) :
                              h[k].result = DRAW /\ p \in {h[k].playerId, h[k].opponentId}}}

InDrawnMatch(h) ==
  UNION {{h[i].playerId, h[i].opponentId} : i \in {k \in RealRecords(h) : h[k].result = DRAW}}

\* C1: a standings call returns rows whose ranks are 1, 2, ..., N in output
\* order, and no competitor has two rows.
C1_RanksOneToN ==
  StandingsReturned =>
    /\ \A i \in RowIndex : rows[i].rank = i
    /\ \A i, j \in RowIndex : rows[i].playerId = rows[j].playerId => i = j

\* C1 witness: standings of four competitors with a tie between two of them.
C1_Witness ==
  /\ StandingsReturned
  /\ Len(rows) = 4
  /\ \E i \in 1..3 : sameTieKey(rows[i], rows[i + 1])

\* C6: a standings call returns the same rows in the same order for every
\* reordering of the same match records.
C6_OrderOfRecordsIrrelevant ==
  /\ call.op = "swiss" =>
       \A f \in Permutations(DOMAIN history) :
         computeSwissStandings(Reorder(history, f), call.options) = rows
  /\ call.op = "roundrobin" =>
       \A f \in Permutations(DOMAIN history) :
         LET ret == computeRoundRobinStandings(Reorder(history, f), call.options)
         IN  ret.threw = call.threw /\ ret.rows = rows

\* C7: in every row MWP lies in [0, 1] and GWP, OMW% and OGW% lie in
\* [floor, 1], rows of competitors with byes only or no games included.
C7_PercentagesInRange ==
  StandingsReturned =>
    \A i \in RowIndex :
      LET r == rows[i]
          floor == call.options.opponentPctFloor
          InFloorToOne(x) == RLe(floor, x) /\ RLe(x, R(1))
      IN  /\ RLe(R(0), r.mwp) /\ RLe(r.mwp, R(1))
          /\ InFloorToOne(r.gwp)
          /\ InFloorToOne(r.omwp)
          /\ InFloorToOne(r.ogwp)

WinsEqualLosses ==
  SumRows(LAMBDA r : r.wins) = SumRows(LAMBDA r : r.losses)

\* Every drawn match counts as one draw in the row of each of its competitors.
DrawsSymmetric ==
  /\ \A p \in InDrawnMatch(history) : \E i \in RowIndex : rows[i].playerId = p
  /\ \A i \in RowIndex :
       rows[i].draws = Cardinality(DrawnMatches(history, rows[i].playerId))

C9_SwissSingleEntryAsMirrored ==
  (call.op = "swiss" /\ call.options.acceptSingleEntryMatches /\ OneSided(history)) =>
    rows = computeSwissStandings(HandMirrored(history),
             [call.options EXCEPT !.acceptSingleEntryMatches = FALSE])

RRProjection(r) ==
  [playerId |-> r.playerId, matchPoints |-> r.matchPoints, omwp |-> r.omwp,
   gwp |-> r.gwp, ogwp |-> r.ogwp, sb |-> r.sb, penalties |-> r.penalties,
   rank |-> r.rank]

\* C10: round-robin standings of one-sided records with missing sides
\* accepted give every competitor the match points, OMW%, GWP, OGW%, SB,
\* penalties and rank of strict standings of the history mirrored by hand.
C10_RoundRobinSingleEntryAsMirrored ==
  (call.op = "roundrobin" /\ call.options.acceptSingleEntryMatches /\ OneSided(history)) =>
    LET strict == computeRoundRobinStandings(HandMirrored(history),
                    [call.options EXCEPT !.acceptSingleEntryMatches = FALSE])
    IN  /\ ~strict.threw
        /\ {RRProjection(rows[i]) : i \in RowIndex}
             = {RRProjection(strict.rows[i]) : i \in DOMAIN strict.rows}

\* ------------------------------------------------------------------ properties: Swiss pairing
PairingReturned == call.op = "pairings"

Entrants == {rows[i].playerId : i \in RowIndex}

PairIndex == DOMAIN pairing.pairings

\* How many places (a side of a pair, or the bye) a competitor was given.
Places(p) ==
  Cardinality({i \in PairIndex : pairing.pairings[i].a = p})
  + Cardinality({i \in PairIndex : pairing.pairings[i].b = p})
  + (IF pairing.bye = p THEN 1 ELSE 0)

MetBefore(q) == HasPlayed(history, q.a, q.b)

\* Can the competitors in S be paired off with no pair that already met?
RECURSIVE RematchFreePairing(_)
RematchFreePairing(S) ==
  \/ S = {}
  \/ /\ S # {}
     /\ LET p == CHOOSE x \in S : TRUE
        IN  \E q \in S \ {p} : /\ ~HasPlayed(history, p, q)
                               /\ RematchFreePairing(S \ {p, q})

\* C2: generateSwissPairings places every competitor exactly once, in one
\* pair or as the bye, pairs nobody with themselves, and gives a bye exactly
\* when the number of competitors is odd.
C2_EveryoneOnce ==
  PairingReturned =>
    /\ \A p \in Entrants : Places(p) = 1
    /\ \A i \in PairIndex : /\ pairing.pairings[i].a # pairing.pairings[i].b
                            /\ {pairing.pairings[i].a, pairing.pairings[i].b} \subseteq Entrants
    /\ (pairing.bye # NoBye) <=> (Len(rows) % 2 = 1)
    /\ pairing.bye # NoBye => pairing.bye \in Entrants

\* C2 witness: five competitors paired in two pairs with one bye.
C2_Witness ==
  /\ PairingReturned
  /\ Len(rows) = 5
  /\ Len(pairing.pairings) = 2
  /\ pairing.bye # NoBye

\* C3: with an odd number of competitors the bye goes to the lowest-ranked
\* competitor that has no bye record; when all have one, to the lowest-ranked.
C3_ByeToLowestWithoutBye ==
  (PairingReturned /\ Len(rows) % 2 = 1) =>
    LET fresh == {i \in RowIndex : ~HadBye(history, rows[i].playerId)}
        pool == IF fresh # {} THEN fresh ELSE RowIndex
    IN  \E i \in pool : /\ pairing.bye = rows[i].playerId
                        /\ \A j \in pool : rows[j].rank <= rows[i].rank

\* C3 witness: the lowest-ranked competitor already has a bye record, so the
\* bye goes to a competitor ranked above.
C3_Witness ==
  /\ PairingReturned
  /\ Len(rows) = 5
  /\ HadBye(history, rows[5].playerId)
  /\ pairing.bye \in Entrants \ {rows[5].playerId}

\* C5: with avoidRematches on, every returned pair that had already met is
\* listed in rematchesUsed, and rematchesUsed lists only such returned pairs.
C5_RematchesRecorded ==
  (PairingReturned /\ call.options.avoidRematches) =>
    /\ \A i \in PairIndex :
         MetBefore(pairing.pairings[i]) => pairing.pairings[i] \in Range(pairing.rematchesUsed)
    /\ \A u \in Range(pairing.rematchesUsed) :
         u \in Range(pairing.pairings) /\ MetBefore(u)

\* C5 witness: a forced rematch was returned and recorded.
C5_Witness ==
  /\ PairingReturned
  /\ call.options.avoidRematches
  /\ pairing.rematchesUsed # <<>>
  /\ \E i \in PairIndex : ~MetBefore(pairing.pairings[i])

\* ------------------------------------------------------------------ properties: round-robin strict mode
\* The real matches of the history that only one record reports.
SingleKeys == {key \in RealMatches(history) : Cardinality(RecordsOf(history, key)) = 1}

HasRow(p) == \E i \in RowIndex : rows[i].playerId = p

\* C11 as stated: in strict mode computeRoundRobinStandings fails and
\* returns no rows exactly when some pair has exactly one record in some
\* round (bye records never count); with acceptSingleEntryMatches it never
\* fails, and the side missing from such a record gets its row with the
\* reporter as an opponent.
C11_StrictModeFailsOnSingleRecord ==
  call.op = "roundrobin" =>
    /\ ~call.options.acceptSingleEntryMatches =>
         /\ call.threw <=> SingleKeys # {}
         /\ call.threw => rows = <<>>
    /\ call.options.acceptSingleEntryMatches =>
         /\ ~call.threw
         /\ \A key \in SingleKeys : \A k \in RecordsOf(history, key) :
              \E i \in RowIndex : /\ rows[i].playerId = history[k].opponentId
                                  /\ history[k].playerId \in Range(rows[i].opponents)

\* ------------------------------------------------------------------ round-robin schedule
\* 32-bit words as <<high 16 bits, low 16 bits>>.
W16 == 65536

RECURSIVE Or(_, _)
Or(a, b) ==
  IF a = 0 THEN b
  ELSE IF b = 0 THEN a
  ELSE (IF (a % 2) + (b % 2) > 0 THEN 1 ELSE 0) + 2 * Or(a \div 2, b \div 2)

Xor32(x, y) == <<Xor(x[1], y[1]), Xor(x[2], y[2])>>

\* x | c for a constant c below 2^16
OrLow(c, x) == <<x[1], Or(x[2], c)>>

Add32(x, y) ==
  LET lo == x[2] + y[2]
  IN  <<(x[1] + y[1] + (lo \div W16)) % W16, lo % W16>>

\* x >>> k for 0 < k < 16
Pow2(k) == IF k = 7 THEN 128 ELSE IF k = 14 THEN 16384 ELSE 32768
Shr32(x, k) ==
  <<x[1] \div Pow2(k), (x[2] \div Pow2(k)) + ((x[1] % Pow2(k)) * (W16 \div Pow2(k)))>>

\* The 32-bit product of two 16-bit values.
Mul16(a, b) ==
  LET p0 == a * (b % 256)
      p1 == a * (b \div 256)
  IN  <<((p0 \div 256) + p1) \div 256, (p0 + ((p1 % 256) * 256)) % W16>>

\* Math.imul: the low 32 bits of the product.
imul(x, y) ==
  LET ll == Mul16(x[2], y[2])
  IN  <<(ll[1] + Mul16(x[1], y[2])[2] + Mul16(x[2], y[1])[2]) % W16, ll[2]>>

\* 0x6D2B79F5 = <<0x6D2B, 0x79F5>>
MulberryStep == <<27947, 31221>>

\* One call of the generator returned by mulberry32 with state t:
\* [t: the state after the call, v: the 32-bit value whose quotient by 2^32
\* is returned].
mulberry32(t) ==
  LET t1 == Add32(t, MulberryStep)
      r1 == imul(Xor32(t1, Shr32(t1, 15)), OrLow(1, t1))
      r2 == Xor32(r1, Add32(r1, imul(Xor32(r1, Shr32(r1, 7)), OrLow(61, r1))))
  IN  [t |-> t1, v |-> Xor32(r2, Shr32(r2, 14))]

\* Math.floor(rand() * m) for the value v of rand() * 2^32 and a small m
FloorTimes(v, m) == ((v[1] * m) + ((v[2] * m) \div W16)) \div W16

\* "rr::"
ShuffleTag == <<114, 114, 58, 58>>

\* The values of the first k calls of the generator started in state t.
RECURSIVE RandValues(_, _)
RandValues(t, k) ==
  IF k = 0 THEN <<>>
  ELSE LET g == mulberry32(t) IN <<g.v>> \o RandValues(g.t, k - 1)

\* The loop of shuffleInPlace from index i (1-based) down; vs: the values
\* the generator returns from here on.
RECURSIVE ShuffleLoop(_, _, _)
ShuffleLoop(arr, i, vs) ==
  IF i <= 1 THEN arr
  ELSE LET j == FloorTimes(Head(vs), i) + 1
       IN  ShuffleLoop([arr EXCEPT ![i] = arr[j], ![j] = arr[i]], i - 1, Tail(vs))

\* The seeds callers shuffle with, as char codes.
SeedS1 == <<115, 49>>
SeedTexts == {SeedS1}

\* rand = mulberry32(fnv1a(`rr::${seed}`)), as the values it returns, for
\* each seed in use.
RandOfSeed ==
  Table([seed \in SeedTexts |-> RandValues(fnv1a(ShuffleTag \o seed), MaxPlayers)])

shuffleInPlace(arr, seed) == ShuffleLoop(arr, Len(arr), RandOfSeed[seed])

\* The synthetic competitor of odd lists.
ByeId == "__BYE__"

\* rotate indices 1..n-1 one step; arr[0] stays fixed
Rotate(arr) ==
  LET n == Len(arr)
  IN  Array([k \in 1..n |-> IF k = 1 THEN arr[1] ELSE IF k = 2 THEN arr[n] ELSE arr[k - 1]])

\* The inner loop of a round: slot i (1-based) pairs arr[i] with arr[n+1-i].
RoundOf(arr, r) ==
  LET n == Len(arr)
      slots == Array([i \in 1..(n \div 2) |-> <<arr[i], arr[n + 1 - i]>>])
      isBye(q) == q[1] = ByeId \/ q[2] = ByeId
      real == SelectSeq(slots, LAMBDA q : ~isBye(q))
      idle == SelectSeq(slots, isBye)
  IN  [round |-> r,
       pairings |-> Array([i \in DOMAIN real |-> [a |-> real[i][1], b |-> real[i][2]]]),
       byes |-> Array([i \in DOMAIN idle |->
                  IF idle[i][1] = ByeId THEN idle[i][2] ELSE idle[i][1]])]

\* The circle method: rounds r..roundsCount from the working array arr.
RECURSIVE CircleRounds(_, _, _)
CircleRounds(arr, r, roundsCount) ==
  IF r > roundsCount THEN <<>>
  ELSE <<RoundOf(arr, r)>> \o CircleRounds(Rotate(arr), r + 1, roundsCount)

\* The second leg of a double round-robin.
SecondLeg(rounds, roundsCount) ==
  Array([i \in DOMAIN rounds |->
    [round |-> roundsCount + rounds[i].round,
     byes |-> rounds[i].byes,
     pairings |-> Array([k \in DOMAIN rounds[i].pairings |->
                    [a |-> rounds[i].pairings[k].b, b |-> rounds[i].pairings[k].a]])]])

\* The errors thrown, by their message.
OddWithoutBye == "odd number of players and includeBye=false"
OutOfRange == "round out of range"

\* options: [double, shuffleSeed: [given, text], includeBye].
\* threw = TRUE (and no rounds) where the code throws.
buildRoundRobinSchedule(playersIn, options) ==
  IF Len(playersIn) < 2
  THEN [threw |-> FALSE,
        rounds |-> <<[round |-> 1, pairings |-> <<>>,
                      byes |-> IF Len(playersIn) = 1 THEN <<playersIn[1]>> ELSE <<>>]>>]
  ELSE LET shuffled == IF options.shuffleSeed.given /\ options.shuffleSeed.text # <<>>
                       THEN shuffleInPlace(playersIn, options.shuffleSeed.text)
                       ELSE playersIn
           ODD == Len(shuffled) % 2 = 1
       IN  IF ODD /\ ~options.includeBye
           THEN [threw |-> TRUE, error |-> OddWithoutBye, rounds |-> <<>>]
           ELSE LET arr == IF ODD THEN Append(shuffled, ByeId) ELSE shuffled
                    roundsCount == Len(arr) - 1
                    rounds == CircleRounds(arr, 1, roundsCount)
                IN  [threw |-> FALSE,
                     rounds |-> IF options.double
                                THEN rounds \o SecondLeg(rounds, roundsCount)
                                ELSE rounds]

\* schedule.rounds[roundNumber - 1] of the schedule built, or the error
\* thrown by the builder or by the lookup.
RoundAt(schedule, roundNumber) ==
  IF schedule.threw THEN [threw |-> TRUE, error |-> schedule.error]
  ELSE IF roundNumber - 1 \in 0..(Len(schedule.rounds) - 1)
  THEN [threw |-> FALSE, rd |-> schedule.rounds[roundNumber]]
  ELSE [threw |-> TRUE, error |-> OutOfRange]

\* A lookup that takes the round number as a 0-based index.
getRoundRobinRoundZeroBased(playersIn, roundNumber, options) ==
  RoundAt(buildRoundRobinSchedule(playersIn, options), roundNumber + 1)

getRoundRobinRound(playersIn, roundNumber, options) ==
  RoundAt(buildRoundRobinSchedule(playersIn, options), roundNumber)

\* The facade's result for the round looked up; bye is byes[0], NoBye when
\* there is none.
PairingResult(got) ==
  IF got.threw THEN got
  ELSE [threw |-> FALSE,
        result |-> [pairings |-> got.rd.pairings,
                    bye |-> IF got.rd.byes = <<>> THEN NoBye ELSE got.rd.byes[1],
                    round |-> got.rd.round,
                    byes |-> got.rd.byes]]

\* generatePairings with mode 'roundrobin'.
generatePairings(playersIn, roundNumber, options) ==
  PairingResult(getRoundRobinRound(playersIn, roundNumber, options))

PlayerIds == {"A", "B", "C", "D", "E", ByeId}

DefaultRoundRobinOptions ==
  [double |-> FALSE, shuffleSeed |-> [given |-> FALSE, text |-> <<>>], includeBye |-> TRUE]

ShuffleSeeds ==
  {[given |-> FALSE, text |-> <<>>], [given |-> TRUE, text |-> <<>>],
   [given |-> TRUE, text |-> SeedS1]}

RoundRobinOptions ==
  {[double |-> d, shuffleSeed |-> s, includeBye |-> b] :
     d \in BOOLEAN, s \in ShuffleSeeds, b \in BOOLEAN}

\* Round numbers asked for: below, inside and above the rounds of a schedule.
RoundNumbers == (0 - 1)..(MaxPlayers + 1)

InitSchedule ==
  /\ \E n \in 0..MaxPlayers : \E s \in [1..n -> PlayerIds] :
       /\ \A i, j \in 1..n : s[i] = s[j] => i = j
       /\ players = Array(s)
  /\ history = <<>>
  /\ round = 1
  /\ call = NoCall
  /\ rows = <<>>
  /\ pairing = NoPairing
  /\ returned = NoReturn
  /\ bridge = NoBridge

CallBuildSchedule(options) ==
  /\ call = NoCall
  /\ call' = [op |-> "schedule", options |-> options, threw |-> FALSE]
  /\ returned' = buildRoundRobinSchedule(players, options)
  /\ UNCHANGED <<history, round, rows, pairing, players, bridge>>

CallGetRound(roundNumber, options) ==
  /\ call = NoCall
  /\ call' = [op |-> "round", options |-> options, roundNumber |-> roundNumber, threw |-> FALSE]
  /\ returned' = getRoundRobinRound(players, roundNumber, options)
  /\ UNCHANGED <<history, round, rows, pairing, players, bridge>>

CallGeneratePairings(roundNumber, options) ==
  /\ call = NoCall
  /\ call' = [op |-> "pairings-roundrobin", options |-> options,
              roundNumber |-> roundNumber, threw |-> FALSE]
  /\ returned' = generatePairings(players, roundNumber, options)
  /\ UNCHANGED <<history, round, rows, pairing, players, bridge>>

NextSchedule ==
  \/ \E options \in RoundRobinOptions : CallBuildSchedule(options)
  \/ \E r \in RoundNumbers, options \in RoundRobinOptions : CallGetRound(r, options)
  \/ \E r \in RoundNumbers, options \in RoundRobinOptions : CallGeneratePairings(r, options)

SpecSchedule == InitSchedule /\ [][NextSchedule]_vars

\* ------------------------------------------------------------------ properties: round-robin schedule
ScheduleReturned == call.op = "schedule" /\ ~returned.threw

Schedule == returned.rounds

Listed == Range(players)

\* How often the unordered pair {p, q} is paired in the rounds rs.
TimesPaired(rs, p, q) ==
  SumInts(Array([i \in DOMAIN rs |->
    Cardinality({k \in DOMAIN rs[i].pairings :
                   {rs[i].pairings[k].a, rs[i].pairings[k].b} = {p, q}})]))

\* How often p is paired as a and q as b in the rounds rs.
TimesPairedAs(rs, p, q) ==
  SumInts(Array([i \in DOMAIN rs |->
    Cardinality({k \in DOMAIN rs[i].pairings :
                   rs[i].pairings[k].a = p /\ rs[i].pairings[k].b = q})]))

\* In how many pairings of round rd the competitor p appears.
PairingsOf(rd, p) ==
  Cardinality({k \in DOMAIN rd.pairings : rd.pairings[k].a = p})
  + Cardinality({k \in DOMAIN rd.pairings : rd.pairings[k].b = p})

ByesOf(rd, p) == Cardinality({k \in DOMAIN rd.byes : rd.byes[k] = p})

NumberedFromOne(rs) == \A i \in DOMAIN rs : rs[i].round = i

NoSelfPairing(rs) ==
  \A i \in DOMAIN rs : \A k \in DOMAIN rs[i].pairings :
    rs[i].pairings[k].a # rs[i].pairings[k].b

EveryPairOnce(rs) ==
  \A p, q \in Listed : p # q => TimesPaired(rs, p, q) = 1

\* The single schedule of an even list: N-1 rounds without byes, everyone
\* in one pairing of every round, every pair once.
EvenScheduleComplete ==
  /\ Len(Schedule) = Len(players) - 1
  /\ NumberedFromOne(Schedule)
  /\ \A i \in DOMAIN Schedule :
       /\ Schedule[i].byes = <<>>
       /\ \A p \in Listed : PairingsOf(Schedule[i], p) = 1
  /\ NoSelfPairing(Schedule)
  /\ EveryPairOnce(Schedule)

EvenSingleCall ==
  /\ ScheduleReturned
  /\ ~call.options.double
  /\ Len(players) >= 2
  /\ Len(players) % 2 = 0

\* C12: for every even list of distinct competitors, in any order and with
\* or without a shuffle seed, the single schedule has N-1 rounds numbered
\* from 1 without byes, everyone in exactly one pairing of every round, no
\* self-pairing, and every unordered pair paired exactly once.
C12_EvenSingleSchedule == EvenSingleCall => EvenScheduleComplete

\* The same for lists in which nobody has the id of the synthetic bye.
EvenSingleScheduleOfPlainIds ==
  (EvenSingleCall /\ ByeId \notin Listed) => EvenScheduleComplete

\* The single schedule of an odd list: N rounds, one bye and (N-1)/2
\* pairings a round, one bye per competitor, every pair once.
OddScheduleComplete ==
  /\ Len(Schedule) = Len(players)
  /\ \A i \in DOMAIN Schedule :
       /\ Len(Schedule[i].byes) = 1
       /\ Len(Schedule[i].pairings) = (Len(players) - 1) \div 2
       /\ \A p \in Listed : PairingsOf(Schedule[i], p) + ByesOf(Schedule[i], p) = 1
  /\ \A p \in Listed :
       SumInts(Array([i \in DOMAIN Schedule |-> ByesOf(Schedule[i], p)])) = 1
  /\ EveryPairOnce(Schedule)

OddSingleCall ==
  /\ ScheduleReturned
  /\ ~call.options.double
  /\ call.options.includeBye
  /\ Len(players) >= 3
  /\ Len(players) % 2 = 1

\* C13: for every odd list of at least three distinct competitors with
\* includeBye on, the single schedule has N rounds, each with one bye and
\* (N-1)/2 pairings; every competitor has exactly one bye and is in one
\* pairing of each other round; every unordered pair is paired exactly once.
C13_OddSingleSchedule == OddSingleCall => OddScheduleComplete

\* The same for lists in which nobody has the id of the synthetic bye.
OddSingleScheduleOfPlainIds ==
  (OddSingleCall /\ ByeId \notin Listed) => OddScheduleComplete

SchedulerCalled == call.op \in {"schedule", "round", "pairings-roundrobin"}

\* C14: with includeBye off, buildRoundRobinSchedule, getRoundRobinRound and
\* generatePairings in round-robin mode fail for every list of odd length.
C14_OddListWithoutByeFails ==
  (SchedulerCalled /\ ~call.options.includeBye /\ Len(players) % 2 = 1) => returned.threw

\* The same for odd lists of at least three players.
OddListOfThreeWithoutByeFails ==
  (SchedulerCalled /\ ~call.options.includeBye /\ Len(players) % 2 = 1 /\ Len(players) >= 3)
    => returned.threw /\ returned.error = OddWithoutBye

\* The single schedule of the same players under the same options.
SingleSchedule ==
  buildRoundRobinSchedule(players, [call.options EXCEPT !.double = FALSE]).rounds

\* The schedule is the single schedule followed by its mirror: round R+i has
\* the byes of round i and its pairings, in order, with a and b swapped.
TwoLegs ==
  LET single == SingleSchedule
      legRounds == Len(single)
  IN  /\ Len(Schedule) = 2 * legRounds
      /\ NumberedFromOne(Schedule)
      /\ SubSeq(Schedule, 1, legRounds) = single
      /\ \A i \in 1..legRounds :
           /\ Schedule[legRounds + i].byes = Schedule[i].byes
           /\ Len(Schedule[legRounds + i].pairings) = Len(Schedule[i].pairings)
           /\ \A k \in DOMAIN Schedule[i].pairings :
                /\ Schedule[legRounds + i].pairings[k].a = Schedule[i].pairings[k].b
                /\ Schedule[legRounds + i].pairings[k].b = Schedule[i].pairings[k].a

DoubleCall == ScheduleReturned /\ call.options.double

\* C15 as stated: a double schedule has twice the rounds of the single one,
\* the second leg mirroring the first, and so pairs every unordered pair of
\* competitors exactly twice, once in each orientation.
C15_DoubleMirrorsSingle ==
  DoubleCall =>
    /\ TwoLegs
    /\ \A p, q \in Listed : p # q => TimesPairedAs(Schedule, p, q) = 1

\* C16: getRoundRobinRound returns the round numbered r of the schedule of
\* the same players and options when r is one of its round numbers and fails
\* with the range error for every other r; generatePairings in round-robin
\* mode returns that round's pairings, byes and number, with bye its first
\* bye or none.
C16_RoundLookup ==
  (call.op \in {"round", "pairings-roundrobin"}) =>
    LET schedule == buildRoundRobinSchedule(players, call.options)
        r == call.roundNumber
    IN  /\ schedule.threw => returned.threw
        /\ (~schedule.threw /\ (r < 1 \/ r > Len(schedule.rounds))) =>
             returned.threw /\ returned.error = OutOfRange
        /\ (~schedule.threw /\ r >= 1 /\ r <= Len(schedule.rounds)) =>
             /\ ~returned.threw
             /\ \E i \in DOMAIN schedule.rounds :
                  /\ schedule.rounds[i].round = r
                  /\ call.op = "round" => returned.rd = schedule.rounds[i]
                  /\ call.op = "pairings-roundrobin" =>
                       /\ returned.result.pairings = schedule.rounds[i].pairings
                       /\ returned.result.byes = schedule.rounds[i].byes
                       /\ returned.result.round = r
                       /\ returned.result.bye =
                            IF schedule.rounds[i].byes = <<>> THEN NoBye
                            ELSE schedule.rounds[i].byes[1]

\* C16 witness: generatePairings returned a later round of an odd list, with
\* its bye.
C16_Witness ==
  /\ call.op = "pairings-roundrobin"
  /\ ~returned.threw
  /\ call.roundNumber > 1
  /\ returned.result.bye # NoBye
  /\ returned.result.pairings # <<>>

\* C16 second case: a round number above the rounds of the schedule was
\* refused.
C16_WitnessOutOfRange ==
  /\ call.op = "round"
  /\ call.roundNumber > Len(players)
  /\ Len(players) >= 2
  /\ returned.threw
  /\ returned.error = OutOfRange

\* ------------------------------------------------------------------ event runs
\* An event run from the round-robin schedule: the organiser builds the
\* schedule for the roster, enters both sides' records of each scheduled
\* pairing and a bye record for each scheduled bye, round after round, and
\* asks either engine for standings.
EventRosters == {<<"A", "B", "C", "D">>, <<"A", "B", "C", "D", "E">>}

\* What side a of a pairing reports: outcome, game score, its penalties.
EventReports ==
  {<<WIN, <<2, 0, 0>>, 0>>, <<WIN, <<2, 0, 0>>, 1>>,
   <<LOSS, <<0, 2, 0>>, 0>>, <<LOSS, <<0, 2, 0>>, 1>>,
   <<DRAW, <<1, 1, 1>>, 0>>, <<FORFEIT_WIN, <<0, 0, 0>>, 0>>}

\* tiebreakVirtualBye as passed: off, on with the defaults, on with values
\* outside [0, 1] and under the floor.
VirtualByeConfigs ==
  {[enabled |-> FALSE, mwp |-> Half, gwp |-> Half],
   [enabled |-> TRUE, mwp |-> Half, gwp |-> Half],
   [enabled |-> TRUE, mwp |-> <<3, 2>>, gwp |-> <<1, 5>>]}

\* Points maps the caller passes with entries left out.
PartialPoints == {[win |-> 2], [draw |-> 2, loss |-> 1, bye |-> 1]}

SwissEventOptions ==
  {[OptionsE1 EXCEPT !.applyHeadToHead = h2h, !.vbEnabled = vb.enabled,
                          !.vbMwp = vb.mwp, !.vbGwp = vb.gwp] :
     h2h \in BOOLEAN, vb \in VirtualByeConfigs}
  \cup {[OptionsE1 EXCEPT !.points = pts] : pts \in PartialPoints}

\* With an event id and applyHeadToHead, or with no options at all.
RoundRobinEventOptions ==
  {[OptionsE1 EXCEPT !.applyHeadToHead = h2h] : h2h \in BOOLEAN} \cup {DefaultOptions}

ScheduledRound == returned.rounds[round]

\* Pairings of the current round whose result is in, byes of it recorded.
ResultsInRound ==
  Cardinality({i \in RealRecords(history) : history[i].round = round}) \div 2
ByesInRound ==
  Cardinality({i \in DOMAIN history :
                 history[i].round = round /\ history[i].opponentId = NoOpponent})
ResultsEntered == Cardinality(RealRecords(history)) \div 2

InitEvent ==
  /\ players \in EventRosters
  /\ returned = buildRoundRobinSchedule(players, DefaultRoundRobinOptions)
  /\ history = <<>>
  /\ round = 1
  /\ call = NoCall
  /\ rows = <<>>
  /\ pairing = NoPairing
  /\ bridge = NoBridge

\* Both sides of the next scheduled pairing report their match.
ReportResult(res, g, pen) ==
  /\ call = NoCall
  /\ ResultsEntered < MaxResults
  /\ ResultsInRound < Len(ScheduledRound.pairings)
  /\ LET p == ScheduledRound.pairings[ResultsInRound + 1]
         n == Len(history) + 1
     IN  history' = history \o
           <<Record(n, round, p.a, p.b, res, g, pen),
             Record(n + 1, round, p.b, p.a, Opposite(res), <<g[2], g[1], g[3]>>, 0)>>
  /\ UNCHANGED <<round, call, rows, pairing, players, returned, bridge>>

\* The next scheduled bye of the round is recorded, once its pairings are in.
RecordScheduledBye ==
  /\ call = NoCall
  /\ ResultsInRound = Len(ScheduledRound.pairings)
  /\ ByesInRound < Len(ScheduledRound.byes)
  /\ history' = Append(history,
                  Record(Len(history) + 1, round, ScheduledRound.byes[ByesInRound + 1],
                         NoOpponent, BYE, <<0, 0, 0>>, 0))
  /\ UNCHANGED <<round, call, rows, pairing, players, returned, bridge>>

\* The round is complete; the event moves on to the next scheduled round.
NextScheduledRound ==
  /\ call = NoCall
  /\ ResultsEntered < MaxResults
  /\ ResultsInRound = Len(ScheduledRound.pairings)
  /\ ByesInRound = Len(ScheduledRound.byes)
  /\ round < Len(returned.rounds)
  /\ round' = round + 1
  /\ UNCHANGED <<history, call, rows, pairing, players, returned, bridge>>

NextEvent ==
  \/ \E rep \in EventReports : ReportResult(rep[1], rep[2], rep[3])
  \/ RecordScheduledBye
  \/ NextScheduledRound
  \/ \E options \in SwissEventOptions : CallSwissStandings(options)
  \/ \E options \in RoundRobinEventOptions : CallRoundRobinStandings(options)

SpecEvent == InitEvent /\ [][NextEvent]_vars

\* ------------------------------------------------------------------ properties: final order
\* The five keys of the cascade, in order.
CascadeKeys(r) == <<R(r.matchPoints), r.omwp, r.gwp, r.ogwp, r.sb>>

\* The first key on which rows a and b differ is key k, and a is greater on it.
GreaterAtKey(a, b, k) ==
  /\ \A j \in 1..(k - 1) : CascadeKeys(a)[j] = CascadeKeys(b)[j]
  /\ RLt(CascadeKeys(b)[k], CascadeKeys(a)[k])

\* Rows i < j of the returned standings are told apart by key k.
DecidedAtKey(k) ==
  \E i, j \in RowIndex : i < j /\ GreaterAtKey(rows[i], rows[j], k)

\* C17: in the rows either engine returns, of any two rows that differ on a
\* key of the cascade match points, OMW%, GWP, OGW%, Sonneborn-Berger, the
\* one ranked better is greater on the first key on which they differ; a row
\* with more match points is above every row with fewer.
C17_CascadeOrder ==
  StandingsReturned =>
    \A i, j \in RowIndex : i < j =>
      /\ \/ CascadeKeys(rows[i]) = CascadeKeys(rows[j])
         \/ \E k \in 1..5 : GreaterAtKey(rows[i], rows[j], k)
      /\ rows[i].matchPoints >= rows[j].matchPoints

\* C17 witness: round-robin standings in which one pair of rows is told
\* apart by match points, one by OMW%, one by GWP and one by OGW%.
C17_Witness ==
  /\ call.op = "roundrobin"
  /\ StandingsReturned
  /\ \A k \in 1..4 : DecidedAtKey(k)

\* C17, second witness: Swiss standings in which Sonneborn-Berger tells two
\* rows apart that are equal on the four keys before it.
C17_WitnessSonnebornBerger ==
  /\ call.op = "swiss"
  /\ StandingsReturned
  /\ DecidedAtKey(5)

\* ------------------------------------------------------------------ properties: tie blocks
\* The tie block of row i: the rows equal to it on all five keys.
BlockOf(i) == {j \in RowIndex : CascadeKeys(rows[j]) = CascadeKeys(rows[i])}

MembersOf(B) == {rows[j].playerId : j \in B}

\* The records p owns against other members of a block.
OwnRecordsAgainst(p, members) ==
  {i \in DOMAIN history :
     history[i].playerId = p /\ history[i].opponentId \in members \ {p}}

\* The head-to-head sub-score of p within a block, in half points: 2 per win
\* or forfeit win, 1 per draw.
SubScore(p, members) ==
  2 * Cardinality({i \in OwnRecordsAgainst(p, members) :
                     history[i].result \in {WIN, FORFEIT_WIN}})
    + Cardinality({i \in OwnRecordsAgainst(p, members) : history[i].result = DRAW})

SubScoresDistinct(B) ==
  \A j, k \in B :
    j # k => SubScore(rows[j].playerId, MembersOf(B)) # SubScore(rows[k].playerId, MembersOf(B))

\* The block is in descending order of sub-score.
BySubScore(B) ==
  \A j, k \in B :
    j < k => SubScore(rows[j].playerId, MembersOf(B)) > SubScore(rows[k].playerId, MembersOf(B))

\* What the same call returns with head-to-head disabled.
RowsWithoutHeadToHead ==
  LET options == [call.options EXCEPT !.applyHeadToHead = FALSE]
  IN  IF call.op = "swiss"
      THEN computeSwissStandings(history, options)
      ELSE computeRoundRobinStandings(history, options).rows

HeadToHeadCall == StandingsReturned /\ call.options.applyHeadToHead

\* C18: with head-to-head enabled, a tie block of more than one row whose
\* members' sub-scores (own records against other members: 1 per win or
\* forfeit win, 0.5 per draw) are pairwise distinct is ranked by descending
\* sub-score, whatever the penalties; a block in which two sub-scores are
\* equal is ordered as it is with head-to-head disabled.
C18_HeadToHeadInTieBlock ==
  HeadToHeadCall =>
    \A i \in RowIndex :
      Cardinality(BlockOf(i)) > 1 =>
        IF SubScoresDistinct(BlockOf(i))
        THEN BySubScore(BlockOf(i))
        ELSE LET without == Array(RowsWithoutHeadToHead)
             IN  \A j \in BlockOf(i) : rows[j] = without[j]

\* C18 witness: head-to-head ranks a block with pairwise distinct sub-scores,
\* putting a member with more penalties above one with fewer.
C18_Witness ==
  /\ HeadToHeadCall
  /\ \E i, j \in RowIndex :
       /\ i < j
       /\ j \in BlockOf(i)
       /\ SubScoresDistinct(BlockOf(i))
       /\ rows[i].penalties > rows[j].penalties

\* C18, second witness: a block of two members who drew their match, so
\* that head-to-head decides nothing.
C18_WitnessUndecided ==
  /\ HeadToHeadCall
  /\ \E i \in RowIndex :
       /\ Cardinality(BlockOf(i)) = 2
       /\ SubScore(rows[i].playerId, MembersOf(BlockOf(i))) = 1
       /\ ~SubScoresDistinct(BlockOf(i))

\* fnv1a of eventId, the engine's fallback tag and the competitor's id.
FallbackHash(id) ==
  fnv1a(call.options.eventId
          \o (IF call.op = "swiss" THEN SwissFallbackTag ELSE RRFallbackTag)
          \o CharCodes(id))

\* Head-to-head does not resolve the block: disabled, or two sub-scores equal.
Unresolved(B) == ~call.options.applyHeadToHead \/ ~SubScoresDistinct(B)

SamePenalties(B) == \A j, k \in B : rows[j].penalties = rows[k].penalties

\* C19: a tie block that head-to-head does not resolve is in ascending order
\* of penalties, and, when all its members have the same penalties, in
\* ascending order of the FNV-1a hash of eventId::fallback::id (Swiss) or
\* eventId::rr-fallback::id (round-robin).
C19_PenaltiesThenHash ==
  StandingsReturned =>
    \A i \in RowIndex :
      (Cardinality(BlockOf(i)) > 1 /\ Unresolved(BlockOf(i))) =>
        /\ \A j, k \in BlockOf(i) : j < k => rows[j].penalties <= rows[k].penalties
        /\ SamePenalties(BlockOf(i)) =>
             \A j, k \in BlockOf(i) :
               j < k => HashLt(FallbackHash(rows[j].playerId), FallbackHash(rows[k].playerId))

\* C19 witness: head-to-head is enabled and decides nothing for a block
\* whose members differ in penalties.
C19_Witness ==
  /\ HeadToHeadCall
  /\ \E i, j \in RowIndex :
       /\ j \in BlockOf(i)
       /\ ~SubScoresDistinct(BlockOf(i))
       /\ rows[i].penalties < rows[j].penalties

\* C19, second witness: round-robin standings without head-to-head, a block
\* of three members with the same penalties, in hash order.
C19_WitnessHash ==
  /\ call.op = "roundrobin"
  /\ StandingsReturned
  /\ ~call.options.applyHeadToHead
  /\ \E i \in RowIndex : Cardinality(BlockOf(i)) = 3 /\ SamePenalties(BlockOf(i))

\* ------------------------------------------------------------------ properties: virtual bye
VirtualByeCall == call.op = "swiss" /\ call.options.vbEnabled

\* What the same call returns with tiebreakVirtualBye off.
RowsWithoutVirtualBye ==
  computeSwissStandings(history, [call.options EXCEPT !.vbEnabled = FALSE])

RowFor(rs, p) == rs[CHOOSE i \in DOMAIN rs : rs[i].playerId = p]

\* Everything in a standing row except rank, OMW% and OGW%.
OwnResults(r) ==
  <<r.playerId, r.matchPoints, r.mwp, r.gwp, r.sb, r.wins, r.losses, r.draws, r.byes,
    r.roundsPlayed, r.gameWins, r.gameLosses, r.gameDraws, r.penalties, r.opponents>>

\* C20: computeSwissStandings with tiebreakVirtualBye on returns, for every
\* competitor, the match points, MWP, GWP, Sonneborn-Berger score, result and
\* game counts, penalties and opponents it returns with it off; OMW% or OGW%
\* differ only for competitors that have a bye.
C20_VirtualByeTouchesOnlyOpponentPcts ==
  VirtualByeCall =>
    LET without == Array(RowsWithoutVirtualBye)
    IN  /\ Len(rows) = Len(without)
        /\ \A i \in RowIndex :
             /\ \E k \in DOMAIN without : without[k].playerId = rows[i].playerId
             /\ LET off == RowFor(without, rows[i].playerId)
                IN  /\ OwnResults(rows[i]) = OwnResults(off)
                    /\ (rows[i].omwp # off.omwp \/ rows[i].ogwp # off.ogwp)
                         => rows[i].byes > 0

\* C20 witness: the virtual bye changes the OMW% and the rank of a competitor
\* with a bye, in standings that also list a competitor without one.
C20_Witness ==
  /\ VirtualByeCall
  /\ LET without == Array(RowsWithoutVirtualBye)
     IN  \E i, j \in RowIndex :
           /\ rows[i].byes > 0
           /\ rows[i].omwp # RowFor(without, rows[i].playerId).omwp
           /\ rows[i].rank # RowFor(without, rows[i].playerId).rank
           /\ rows[j].byes = 0

\* ------------------------------------------------------------------ Elo ratings
\* Ratings, K factors, scores and deltas are IEEE doubles in the code and
\* exact rationals here.  10^x is rational only for a whole x, so
\* expectedScore is defined for rating differences that are whole multiples
\* of 400; the runs below are those in which every expected score is asked
\* at such a difference (ExpectedScoresExact).

MaxBatch == 2

RSub(x, y) == Rat(x[1] * y[2] - y[1] * x[2], x[2] * y[2])

RECURSIVE Pow10(_)
Pow10(k) == IF k = 0 THEN 1 ELSE 10 * Pow10(k - 1)

WholeExponent(rA, rB) == RDiv(RSub(rB, rA), R(400))[2] = 1

\* Reference formula 1 / (1 + 10^((rB - rA) / 400)).
expectedScore(rA, rB) ==
  LET x == RDiv(RSub(rB, rA), R(400))
      k == CHOOSE k \in {x[1]} : x[2] = 1
  IN  IF k >= 0 THEN Rat(1, 1 + Pow10(k))
      ELSE Rat(Pow10(-k), Pow10(-k) + 1)

\* obj[id] ?? fallback, for a record keyed by player id.
Lookup(obj, id, fallback) == IF id \in DOMAIN obj THEN obj[id] ELSE fallback

\* An optional field that is undefined is a field the record does not have.
Defined(obj, field) == field \in DOMAIN obj

DefaultK == 32

\* The destructuring defaults; initialRating is always given by the caller.
EloDefaults(options) ==
  [K             |-> Lookup(options, "K", R(DefaultK)),
   KDraw         |-> Lookup(options, "KDraw", Lookup(options, "K", R(DefaultK))),
   perPlayerK    |-> Lookup(options, "perPlayerK", <<>>),
   initialRating |-> options.initialRating,
   floor         |-> IF Defined(options, "floor") THEN <<options.floor>> ELSE <<>>,
   cap           |-> IF Defined(options, "cap") THEN <<options.cap>> ELSE <<>>,
   mode          |-> Lookup(options, "mode", "sequential"),
   drawScore     |-> Lookup(options, "drawScore", Half)]

getR(ratings, base, id, opt) ==
  Lookup(ratings, id, Lookup(base, id, opt.initialRating))

apply(st, id, delta, opt) ==
  LET before   == Lookup(st.ratings, id, opt.initialRating)
      after    == RAdd(before, delta)
      floored  == IF opt.floor # <<>> THEN RMax(opt.floor[1], after) ELSE after
      capped   == IF opt.cap # <<>> THEN RMin(opt.cap[1], floored) ELSE floored
  IN  [ratings |-> Table((id :> capped) @@ st.ratings),
       deltas  |-> Table((id :> RAdd(Lookup(st.deltas, id, R(0)), delta)) @@ st.deltas)]

scoreOfA(result, opt) ==
  IF result = "A" THEN R(1) ELSE IF result = "B" THEN R(0) ELSE opt.drawScore

\* One iteration of either loop: Ra and Rb are the ratings the expected
\* score is taken at, Ea the expected score of m.a.
applyMatch(st, m, Ea, opt) ==
  LET Eb    == RSub(R(1), Ea)
      Sa    == scoreOfA(m.result, opt)
      Sb    == RSub(R(1), Sa)
      baseK == IF m.result = "draw" THEN opt.KDraw ELSE opt.K
      K_a   == Lookup(opt.perPlayerK, m.a, baseK)
      K_b   == Lookup(opt.perPlayerK, m.b, baseK)
      w     == Lookup(m, "weight", R(1))
      afterA == apply(st, m.a, RMul(RMul(w, K_a), RSub(Sa, Ea)), opt)
  IN  apply(afterA, m.b, RMul(RMul(w, K_b), RSub(Sb, Eb)), opt)

\* The ratings at which the expected score of m is taken: the running
\* ratings in sequential mode, the snapshot otherwise.
ReadRatings(st, snap, base, m, opt) ==
  IF opt.mode = "sequential"
  THEN <<getR(st.ratings, base, m.a, opt), getR(st.ratings, base, m.b, opt)>>
  ELSE <<getR(snap, base, m.a, opt), getR(snap, base, m.b, opt)>>

RECURSIVE EloLoop(_, _, _, _, _, _)
EloLoop(st, snap, base, matches, i, opt) ==
  IF i > Len(matches) THEN st
  ELSE LET m  == matches[i]
           rr == ReadRatings(st, snap, base, m, opt)
       IN  EloLoop(applyMatch(st, m, expectedScore(rr[1], rr[2]), opt),
                   snap, base, matches, i + 1, opt)

EloResult(st) == [mode |-> "elo", ratings |-> st.ratings, deltas |-> st.deltas]

updateEloRatings(base, matches, options) ==
  LET opt == EloDefaults(options)
  IN  EloResult(EloLoop([ratings |-> base, deltas |-> <<>>], base, base, matches, 1, opt))

\* Every expected score of the run is asked at a whole multiple of 400.
RECURSIVE ExactFrom(_, _, _, _, _, _)
ExactFrom(st, snap, base, matches, i, opt) ==
  IF i > Len(matches) THEN TRUE
  ELSE LET m  == matches[i]
           rr == ReadRatings(st, snap, base, m, opt)
       IN  /\ WholeExponent(rr[1], rr[2])
           /\ ExactFrom(applyMatch(st, m, expectedScore(rr[1], rr[2]), opt),
                        snap, base, matches, i + 1, opt)

ExpectedScoresExact(base, matches, options) ==
  ExactFrom([ratings |-> base, deltas |-> <<>>], base, base, matches, 1, EloDefaults(options))

\* The accelerated variant.  What the awaited getWasm() delivers:
\*   "rejected"  the load failed (the promise rejected);
\*   "works"     a module whose expectedScore computes the reference formula;
\*   "throws"    a module whose expectedScore throws when called.
Backends == {"rejected", "works", "throws"}

\* let wasmFn = null; try { wasmFn = (await getWasm()).expectedScore } catch {}
LoadWasmFn(backend) == IF backend = "rejected" THEN "null" ELSE backend

\* The module's expectedScore: the same formula, or a throw.
BackendExpectedScore(wasmFn, rA, rB) ==
  IF wasmFn = "throws" THEN [threw |-> TRUE]
  ELSE [threw |-> FALSE, value |-> expectedScore(rA, rB)]

\* expected = (a, b) => wasmFn ? wasmFn(a, b) : expectedScore(a, b)
expected(wasmFn, rA, rB) ==
  IF wasmFn # "null" THEN BackendExpectedScore(wasmFn, rA, rB)
  ELSE [threw |-> FALSE, value |-> expectedScore(rA, rB)]

\* A throw of expected leaves the loop and the function.
RECURSIVE EloLoopWasm(_, _, _, _, _, _, _)
EloLoopWasm(st, snap, base, matches, i, opt, wasmFn) ==
  IF i > Len(matches) THEN [threw |-> FALSE, st |-> st]
  ELSE LET m  == matches[i]
           rr == ReadRatings(st, snap, base, m, opt)
           Ea == expected(wasmFn, rr[1], rr[2])
       IN  IF Ea.threw THEN [threw |-> TRUE]
           ELSE EloLoopWasm(applyMatch(st, m, Ea.value, opt),
                            snap, base, matches, i + 1, opt, wasmFn)

\* How the promise of the async function settles.
Settle(done) ==
  IF done.threw THEN [state |-> "rejected"]
  ELSE [state |-> "fulfilled", value |-> EloResult(done.st)]

updateEloRatingsWasm(base, matches, options, backend) ==
  LET opt == EloDefaults(options)
  IN  Settle(EloLoopWasm([ratings |-> base, deltas |-> <<>>], base, base, matches, 1,
                         opt, LoadWasmFn(backend)))

\* ------------------------------------------------------------------ mirroring runs
\* Records entered by hand for competitors whose ids are arbitrary strings,
\* some holding the character "|", and handed to the Swiss engine.
MirrorIds == {"X", "Z", "X|Y", "Y|Z"}

MirrorOutcomes ==
  {<<WIN, <<2, 0, 0>>>>, <<LOSS, <<1, 2, 0>>>>, <<DRAW, <<1, 1, 1>>>>,
   <<FORFEIT_WIN, <<0, 0, 0>>>>}

NextMirror ==
  \/ \E p \in MirrorIds, o \in MirrorIds, oc \in MirrorOutcomes :
        ReportMatch(p, o, oc[1], oc[2], 0)
  \/ \E p \in MirrorIds : ReportBye(p, 0)
  \/ NextRound
  \/ \E options \in StandingsOptions \cup {DefaultOptions} : CallSwissStandings(options)

SpecMirror == Init /\ [][NextMirror]_vars

\* ------------------------------------------------------------------ pair-key runs
\* Records entered by hand for competitors whose ids are arbitrary strings,
\* some holding the characters "::", and handed to the round-robin engine.
PairKeyIds == {"A", "C", "A::B", "B::C"}

NextPairKey ==
  \/ \E p \in PairKeyIds, o \in PairKeyIds, oc \in MirrorOutcomes :
        ReportMatch(p, o, oc[1], oc[2], 0)
  \/ \E p \in PairKeyIds : ReportBye(p, 0)
  \/ NextRound
  \/ \E options \in StandingsOptions \cup {DefaultOptions} : CallRoundRobinStandings(options)

SpecPairKey == Init /\ [][NextPairKey]_vars

\* ------------------------------------------------------------------ rating runs
\* A caller holds a base ratings map (rows) and a batch of match outcomes
\* (history) and calls the rating update once.
EloPlayers == {"A", "B", "C"}
EloPairs == {<<"A", "B">>, <<"A", "C">>, <<"C", "B">>}
EloResults == {"A", "B", "draw"}
EloWeights == {<<>>, [weight |-> R(2)]}
BaseRatings == {R(1100), R(1500)}
BaseOwners == {{"A", "B", "C"}, {"A", "B"}}
InitialRatingGiven == R(1500)

EloMatches ==
  {[a |-> p[1], b |-> p[2], result |-> res] @@ w :
     p \in EloPairs, res \in EloResults, w \in EloWeights}

KConfigs ==
  {<<>>,
   [K |-> R(40), KDraw |-> R(16), perPlayerK |-> ("A" :> R(64)), drawScore |-> Rat(3, 4)]}

EloOptions ==
  {Table([initialRating |-> InitialRatingGiven] @@ k @@ f @@ c @@ mode) :
     k \in KConfigs,
     f \in {<<>>, [floor |-> R(1500)]},
     c \in {<<>>, [cap |-> R(1510)]},
     mode \in {<<>>, [mode |-> "sequential"], [mode |-> "simultaneous"]}}

InitElo ==
  /\ \E owners \in BaseOwners : \E base \in [owners -> BaseRatings] : rows = Table(base)
  /\ \E n \in 0..MaxBatch : \E batch \in [1..n -> EloMatches] : history = Array(batch)
  /\ round = 1
  /\ call = NoCall
  /\ pairing = NoPairing
  /\ players = <<>>
  /\ returned = NoReturn
  /\ bridge = NoBridge

CallUpdateElo(options) ==
  /\ call = NoCall
  /\ ExpectedScoresExact(rows, history, options)
  /\ call' = [op |-> "elo", options |-> options, threw |-> FALSE]
  /\ returned' = updateEloRatings(rows, history, options)
  /\ UNCHANGED <<history, round, rows, pairing, players, bridge>>

NextElo == \E options \in EloOptions : CallUpdateElo(options)

SpecElo == InitElo /\ [][NextElo]_vars

\* ------------------------------------------------------------------ single-elimination standings
\* "::single-elim::"
SingleElimTag == <<58, 58, 115, 105, 110, 103, 108, 101, 45>> \o <<101, 108, 105, 109, 58, 58>>

\* The deepest round of the history; 0 for an empty one.
maxRoundOf(matches) ==
  IF matches = <<>> THEN 0
  ELSE CHOOSE r \in {matches[i].round : i \in DOMAIN matches} :
         \A i \in DOMAIN matches : matches[i].round <= r

\* elimRound of a competitor with the sorted records ms.
elimRoundOf(ms, maxRound) ==
  LET last == ms[Len(ms)]
  IN  IF last.round = maxRound /\ last.result \in {WIN, FORFEIT_WIN}
      THEN maxRound + 1
      ELSE last.round

SingleEliminationRow(pid, ms, maxRound) ==
  [rank |-> 0,
   playerId |-> pid,
   matchPoints |-> Count(ms, LAMBDA m : m.result \in {WIN, FORFEIT_WIN}),
   mwp |-> R(0), omwp |-> R(0), gwp |-> R(0), ogwp |-> R(0), sb |-> R(0),
   wins |-> Count(ms, LAMBDA m : m.result \in {WIN, FORFEIT_WIN}),
   losses |-> Count(ms, LAMBDA m : m.result \in {LOSS, FORFEIT_LOSS}),
   draws |-> 0,
   byes |-> 0,
   roundsPlayed |-> Len(ms),
   gameWins |-> SumOver(ms, LAMBDA m : m.gameWins),
   gameLosses |-> SumOver(ms, LAMBDA m : m.gameLosses),
   gameDraws |-> SumOver(ms, LAMBDA m : m.gameDraws),
   penalties |-> SumOver(ms, LAMBDA m : m.penalties),
   opponents |-> LET real == SelectSeq(ms, LAMBDA m : m.opponentId # NoOpponent)
                 IN  Array([i \in DOMAIN real |-> real[i].opponentId]),
   elimRound |-> elimRoundOf(ms, maxRound)]

\* The comparator of rows.sort: a goes before b.  hashOf[p] is
\* fnv1a(`${eventId}::single-elim::${p}`).
SingleEliminationBefore(a, b, seeding, hashOf) ==
  IF b.elimRound # a.elimRound THEN b.elimRound < a.elimRound
  ELSE IF /\ a.playerId \in DOMAIN seeding
          /\ b.playerId \in DOMAIN seeding
          /\ seeding[a.playerId] # seeding[b.playerId]
  THEN seeding[a.playerId] < seeding[b.playerId]
  ELSE IF a.penalties # b.penalties THEN a.penalties < b.penalties
  ELSE HashLt(hashOf[a.playerId], hashOf[b.playerId])

SingleEliminationHash(eventId, ids) ==
  Table([p \in ids |-> fnv1a(eventId \o SingleElimTag \o CharCodes(p))])

SortSingleElimination(unsorted, seeding, hashOf) ==
  StableSort(unsorted, LAMBDA a, b : SingleEliminationBefore(a, b, seeding, hashOf))

\* rows.forEach((r, i) => r.rank = i + 1)
RankInOrder(sorted) == Array([i \in DOMAIN sorted |-> [sorted[i] EXCEPT !.rank = i]])

computeSingleEliminationStandings(matches, options) ==
  LET playerIds == PlayerIdsOf(matches)
      maxRound == maxRoundOf(matches)
      unsorted == Array([k \in DOMAIN playerIds |->
                    SingleEliminationRow(playerIds[k], groupByPlayer(matches, playerIds[k]),
                                         maxRound)])
  IN  RankInOrder(SortSingleElimination(unsorted, options.seeding,
                    SingleEliminationHash(options.eventId, Range(playerIds))))

\* ------------------------------------------------------------------ bracket runs
\* A knockout event: in every round two competitors who have not yet played
\* in it play a match, which both sides record; the organiser may ask for
\* standings at any time.
MaxBracketRounds == 2

\* What the first-named side reports: outcome, game score, its penalties.
BracketReports ==
  {<<WIN, <<2, 0, 0>>, 0>>, <<WIN, <<2, 1, 0>>, 1>>, <<FORFEIT_LOSS, <<0, 0, 0>>, 0>>}

\* The pairs that may meet, first-named side first.
BracketPairs ==
  {<<"A", "B">>, <<"A", "C">>, <<"A", "D">>, <<"B", "C">>, <<"B", "D">>, <<"C", "D">>}

PlayedInRound(p) ==
  \E i \in DOMAIN history : history[i].round = round /\ history[i].playerId = p

SingleEliminationOptions ==
  {[eventId |-> EventE1, seeding |-> s, useBronzeMatch |-> b] :
     s \in {<<>>, [p \in Players |-> IF p \in {"A", "B"} THEN 1 ELSE 2]},
     b \in BOOLEAN}

PlayBracketMatch(a, b, res, g, pen) ==
  /\ call = NoCall
  /\ ~PlayedInRound(a) /\ ~PlayedInRound(b)
  /\ LET n == Len(history) + 1
     IN  history' = history \o
           <<Record(n, round, a, b, res, g, pen),
             Record(n + 1, round, b, a, Opposite(res), <<g[2], g[1], g[3]>>, 0)>>
  /\ UNCHANGED <<round, call, rows, pairing, players, returned, bridge>>

NextBracketRound ==
  /\ call = NoCall
  /\ \E i \in DOMAIN history : history[i].round = round
  /\ round < MaxBracketRounds
  /\ round' = round + 1
  /\ UNCHANGED <<history, call, rows, pairing, players, returned, bridge>>

CallSingleEliminationStandings(options) ==
  /\ call = NoCall
  /\ call' = [op |-> "singleelimination", options |-> options, threw |-> FALSE]
  /\ rows' = computeSingleEliminationStandings(history, options)
  /\ UNCHANGED <<history, round, pairing, players, returned, bridge>>

NextBracket ==
  \/ \E q \in BracketPairs, rep \in BracketReports :
        PlayBracketMatch(q[1], q[2], rep[1], rep[2], rep[3])
  \/ NextBracketRound
  \/ \E options \in SingleEliminationOptions : CallSingleEliminationStandings(options)

SpecBracket == Init /\ [][NextBracket]_vars

\* ------------------------------------------------------------------ WASM bridge
\* Promises are numbered in order of creation; wasmReady = 0 is null.  A
\* promise of load is [url, streaming, state, stage]: streaming says whether
\* the load took the streaming loader, stage where the async function waits
\* ("streaming": inside the try of the streaming loader, "fallback": in the
\* buffer loader, "done": returned or thrown).
DefaultUrl == "/ratings.wasm"

\* What the environment of a load provides: the WebAssembly global, its
\* instantiateStreaming, and the fetch global.
Environments ==
  {[webAssembly |-> TRUE, instantiateStreaming |-> TRUE, fetch |-> TRUE],
   [webAssembly |-> TRUE, instantiateStreaming |-> FALSE, fetch |-> TRUE],
   [webAssembly |-> TRUE, instantiateStreaming |-> TRUE, fetch |-> FALSE],
   [webAssembly |-> FALSE, instantiateStreaming |-> FALSE, fetch |-> TRUE]}

\* typeof WebAssembly.instantiateStreaming === 'function' && typeof fetch === 'function'
Streaming(env) == env.instantiateStreaming /\ env.fetch

\* load(url) up to its first await or throw.  Without the WebAssembly global
\* the test of line 430 throws, without fetch the call fetch(url) of line 440
\* does: the promise is rejected when the call returns.
load(url, env) ==
  IF ~env.webAssembly \/ ~env.fetch
  THEN [url |-> url, streaming |-> FALSE, state |-> "rejected", stage |-> "done"]
  ELSE [url |-> url, streaming |-> Streaming(env), state |-> "pending",
        stage |-> IF Streaming(env) THEN "streaming" ELSE "fallback"]

\* A loader that starts a new load at every call.
getWasmUnmemoized(b, url, env) ==
  LET promises == Append(b.promises, load(url, env))
  IN  [b EXCEPT !.wasmReady = Len(promises),
                !.promises = promises,
                !.calls = Append(@, [url |-> url, promise |-> Len(promises),
                                     seen |-> promises[Len(promises)].state])]

\* if (!wasmReady) wasmReady = load(url); return wasmReady;
\* The call is logged with the promise returned and the state it was in.
getWasm(b, url, env) ==
  LET promises == IF b.wasmReady = 0 THEN Append(b.promises, load(url, env))
                  ELSE b.promises
      ready == IF b.wasmReady = 0 THEN Len(promises) ELSE b.wasmReady
  IN  [b EXCEPT !.wasmReady = ready,
                !.promises = promises,
                !.calls = Append(@, [url |-> url, promise |-> ready,
                                     seen |-> promises[ready].state])]

\* getWasm of the Elo module up to its return: if (!_wasm) _wasm = import(...).
eloGetWasm(b) == [b EXCEPT !.eloWasm = IF @ = "null" THEN "importing" ELSE @]

\* How the promise _wasm of the Elo module stands: rejected when the import
\* failed, else as the bridge's promise it was chained to.
eloWasmState(b) ==
  IF b.eloWasm = "rejected" THEN "rejected"
  ELSE IF b.eloWasm = "chained" THEN b.promises[b.wasmReady].state
  ELSE "pending"

\* A step of the pending load p.
Settled(b, p, state, stage) ==
  [b EXCEPT !.promises[p].state = state, !.promises[p].stage = stage]

\* ------------------------------------------------------------------ loader runs
\* Callers on one event loop call the bridge's getWasm with urls of their
\* choice, and the Elo module's own getWasm, while the load proceeds.
MaxCalls == 3

Urls == {DefaultUrl, "/other.wasm"}

Waiting(p, stage) ==
  /\ p \in DOMAIN bridge.promises
  /\ bridge.promises[p].state = "pending"
  /\ bridge.promises[p].stage = stage

CallGetWasm(url, env) ==
  /\ Len(bridge.calls) < MaxCalls
  /\ bridge' = getWasm(bridge, url, env)
  /\ UNCHANGED <<history, round, call, rows, pairing, players, returned>>

\* fetch and instantiateStreaming delivered the module: the load returns.
StreamingLoads(p) ==
  /\ Waiting(p, "streaming")
  /\ bridge' = Settled(bridge, p, "fulfilled", "done")
  /\ UNCHANGED <<history, round, call, rows, pairing, players, returned>>

\* fetch or instantiateStreaming threw: caught, the load goes on to the fallback.
StreamingFails(p) ==
  /\ Waiting(p, "streaming")
  /\ bridge' = Settled(bridge, p, "pending", "fallback")
  /\ UNCHANGED <<history, round, call, rows, pairing, players, returned>>

FallbackLoads(p) ==
  /\ Waiting(p, "fallback")
  /\ bridge' = Settled(bridge, p, "fulfilled", "done")
  /\ UNCHANGED <<history, round, call, rows, pairing, players, returned>>

\* fetch, arrayBuffer or instantiate threw: the load rejects.
FallbackFails(p) ==
  /\ Waiting(p, "fallback")
  /\ bridge' = Settled(bridge, p, "rejected", "done")
  /\ UNCHANGED <<history, round, call, rows, pairing, players, returned>>

\* getWasm of the Elo module: the first call starts the dynamic import.
EloGetWasm ==
  /\ bridge' = eloGetWasm(bridge)
  /\ UNCHANGED <<history, round, call, rows, pairing, players, returned>>

\* The import resolved: .then(m => m.getWasm()) calls the bridge.
EloImportResolves(env) ==
  /\ bridge.eloWasm = "importing"
  /\ bridge' = [getWasm(bridge, DefaultUrl, env) EXCEPT !.eloWasm = "chained"]
  /\ UNCHANGED <<history, round, call, rows, pairing, players, returned>>

EloImportFails ==
  /\ bridge.eloWasm = "importing"
  /\ bridge' = [bridge EXCEPT !.eloWasm = "rejected"]
  /\ UNCHANGED <<history, round, call, rows, pairing, players, returned>>

NextWasm ==
  \/ \E url \in Urls, env \in Environments : CallGetWasm(url, env)
  \/ \E p \in DOMAIN bridge.promises : StreamingLoads(p)
  \/ \E p \in DOMAIN bridge.promises : StreamingFails(p)
  \/ \E p \in DOMAIN bridge.promises : FallbackLoads(p)
  \/ \E p \in DOMAIN bridge.promises : FallbackFails(p)
  \/ EloGetWasm
  \/ \E env \in Environments : EloImportResolves(env)
  \/ EloImportFails

SpecWasm == Init /\ [][NextWasm]_vars

\* ------------------------------------------------------------------ accelerated rating runs
\* A caller holds a base ratings map (rows) and a batch (history) and calls
\* updateEloRatingsWasm once.  The function destructures its options and
\* calls getWasm of the Elo module, then waits for the module; base and
\* matches are read only when it resumes, so what the caller does to them
\* in between is seen by the update.  The call record notes whether the
\* caller touched them during the wait.
EloWasmPairs == {<<"A", "B">>, <<"A", "C">>}

EloWasmMatches == {[a |-> p[1], b |-> p[2], result |-> res] : p \in EloWasmPairs, res \in EloResults}

EloWasmOptions ==
  {Table([initialRating |-> InitialRatingGiven] @@ f @@ mode) :
     f \in {<<>>, [floor |-> R(1500)]},
     mode \in {<<>>, [mode |-> "sequential"], [mode |-> "simultaneous"]}}

InitEloWasm ==
  /\ \E owners \in BaseOwners : \E base \in [owners -> BaseRatings] : rows = Table(base)
  /\ \E n \in 0..MaxBatch : \E batch \in [1..n -> EloWasmMatches] : history = Array(batch)
  /\ round = 1
  /\ call = NoCall
  /\ pairing = NoPairing
  /\ players = <<>>
  /\ returned = NoReturn
  /\ bridge = NoBridge

\* updateEloRatingsWasm up to its await (lines 142-155).
CallUpdateEloWasm(options) ==
  /\ call = NoCall
  /\ call' = [op |-> "elo-wasm", options |-> options, backend |-> "pending",
              touched |-> FALSE, threw |-> FALSE]
  /\ returned' = [state |-> "pending"]
  /\ bridge' = eloGetWasm(bridge)
  /\ UNCHANGED <<history, round, rows, pairing, players>>

Awaiting == call.op = "elo-wasm" /\ returned.state = "pending"

\* The caller assigns a rating in the base map while the update waits.
RerateBase(id, rating) ==
  /\ Awaiting
  /\ id \in DOMAIN rows
  /\ rows[id] # rating
  /\ rows' = [rows EXCEPT ![id] = rating]
  /\ call' = [call EXCEPT !.touched = TRUE]
  /\ UNCHANGED <<history, round, pairing, players, returned, bridge>>

\* The caller pushes a match onto the batch while the update waits.
PushMatch(m) ==
  /\ Awaiting
  /\ Len(history) < MaxBatch
  /\ history' = Append(history, m)
  /\ call' = [call EXCEPT !.touched = TRUE]
  /\ UNCHANGED <<round, rows, pairing, players, returned, bridge>>

\* What the await of line 155 delivers once _wasm has settled: nothing when
\* it rejected, else the module's expectedScore, which works or throws.
Delivered(b) ==
  CASE eloWasmState(b) = "rejected" -> {"rejected"}
    [] eloWasmState(b) = "fulfilled" -> {"works", "throws"}
    [] OTHER -> {}

\* updateEloRatingsWasm from its await to its end (lines 156-228), on base
\* and matches as they are now.
ResumeUpdateEloWasm(backend) ==
  /\ Awaiting
  /\ backend \in Delivered(bridge)
  /\ ExpectedScoresExact(rows, history, call.options)
  /\ call' = [call EXCEPT !.backend = backend]
  /\ returned' = updateEloRatingsWasm(rows, history, call.options, backend)
  /\ UNCHANGED <<history, round, rows, pairing, players, bridge>>

NextEloWasm ==
  \/ \E options \in EloWasmOptions : CallUpdateEloWasm(options)
  \/ \E id \in EloPlayers, rating \in BaseRatings : RerateBase(id, rating)
  \/ \E m \in EloWasmMatches : PushMatch(m)
  \/ \E env \in Environments : EloImportResolves(env)
  \/ EloImportFails
  \/ \E p \in DOMAIN bridge.promises : StreamingLoads(p)
  \/ \E p \in DOMAIN bridge.promises : StreamingFails(p)
  \/ \E p \in DOMAIN bridge.promises : FallbackLoads(p)
  \/ \E p \in DOMAIN bridge.promises : FallbackFails(p)
  \/ \E backend \in Backends : ResumeUpdateEloWasm(backend)

SpecEloWasm == InitEloWasm /\ [][NextEloWasm]_vars

\* ------------------------------------------------------------------ properties: rating update
EloCalled == call.op = "elo"

ModeOf(options) == Lookup(options, "mode", "sequential")

\* The orderings of a batch of n matches.
Orderings(n) == {p \in [1..n -> 1..n] : \A i, j \in 1..n : p[i] = p[j] => i = j}

Reordered(batch, p) == Array([i \in DOMAIN batch |-> batch[p[i]]])

\* C21: in mode 'simultaneous' the update returns the same ratings and the
\* same deltas for every ordering of the batch, whatever the base map and
\* the options (floor and cap included).
C21_SimultaneousOrderIndependent ==
  (EloCalled /\ ModeOf(call.options) = "simultaneous") =>
    \A p \in Orderings(Len(history)) :
      LET other == updateEloRatings(rows, Reordered(history, p), call.options)
      IN  /\ other.ratings = returned.ratings
          /\ other.deltas = returned.deltas

\* The accelerated update has been called and its promise has settled.
EloWasmCalled == call.op = "elo-wasm" /\ returned.state # "pending"

\* C22: the accelerated update falls back to the reference formula on any
\* failure of the backend: whether the module fails to load or a call into
\* its expectedScore fails, the promise is fulfilled, with the result of
\* updateEloRatings on the same arguments (as they stand when it settles).
C22_WasmFallsBackOnAnyFailure ==
  EloWasmCalled =>
    /\ returned.state = "fulfilled"
    /\ returned.value = updateEloRatings(rows, history, call.options)

\* ------------------------------------------------------------------ properties: relaxation ladder
\* The rows left to pair once the bye is set aside, best first.
Unpaired == SelectSeq(rows, LAMBDA r : r.playerId # pairing.bye)

\* Does the search under the given rules end with a full pairing within
\* the attempt bound of the call?
SearchSucceeds(rules) ==
  SearchFrom(Unpaired, 2, call.options.maxBacktrack, history, rules,
             call.options.protectTopN).ok

\* The returned pair takes a protected top-N competitor out of its group.
BreaksProtection(q) ==
  /\ RowFor(rows, q.a).rank <= call.options.protectTopN
  /\ ~SameGroup(RowFor(rows, q.a), RowFor(rows, q.b))

\* C23: for every field of at least two competitors, every history and every
\* attempt bound, generateSwissPairings returns a complete pairing (every
\* competitor in exactly one pair or the bye, as many pairs as half the
\* field, nobody paired with themselves); a rematch is returned under
\* avoidRematches only after the strict search failed, and top-N protection
\* is broken only after the search with rematches allowed failed too.
C23_CompleteAfterRelaxation ==
  (PairingReturned /\ Len(rows) >= 2) =>
    /\ Len(pairing.pairings) = Len(rows) \div 2
    /\ \A p \in Entrants : Places(p) = 1
    /\ \A i \in PairIndex : pairing.pairings[i].a # pairing.pairings[i].b
    /\ (call.options.avoidRematches /\ \E i \in PairIndex : MetBefore(pairing.pairings[i]))
         => ~SearchSucceeds(Strict(TRUE))
    /\ (\E i \in PairIndex : BreaksProtection(pairing.pairings[i]))
         => (~SearchSucceeds(Strict(call.options.avoidRematches)) /\ ~SearchSucceeds(AllowRematch))

\* C23 witness: the attempt bound is exhausted at the first dead end although
\* a rematch-free pairing exists, and the complete pairing returned holds a
\* rematch.
C23_Witness ==
  /\ PairingReturned
  /\ call.options.avoidRematches
  /\ call.options.maxBacktrack = 0
  /\ RematchFreePairing(Entrants \ {pairing.bye})
  /\ pairing.rematchesUsed # <<>>
  /\ Len(pairing.pairings) = Len(rows) \div 2

\* C23 witness: neither the strict search nor the search with rematches
\* allowed ends, and the complete pairing returned breaks top-N protection.
C23_WitnessProtectionLifted ==
  /\ PairingReturned
  /\ \E i \in PairIndex : BreaksProtection(pairing.pairings[i])
  /\ Len(pairing.pairings) = Len(rows) \div 2

\* ------------------------------------------------------------------ properties: normalization
SwissReturned == call.op = "swiss"

\* The history the Swiss engine tallies.
Normalized ==
  IF call.options.acceptSingleEntryMatches
  THEN normalizeMatchesForMirroring(history)
  ELSE history

\* The records normalization appended to the history.
Added == SubSeq(Normalized, Len(history) + 1, Len(Normalized))

Owners(h) == {h[i].playerId : i \in DOMAIN h}

\* The records of h owned by p against o in round r.
Entries(h, r, p, o) ==
  {i \in DOMAIN h : h[i].round = r /\ h[i].playerId = p /\ h[i].opponentId = o}

\* The real records of the history whose match the other side did not enter.
Unmirrored ==
  {i \in RealRecords(history) :
     Entries(history, history[i].round, history[i].opponentId, history[i].playerId) = {}}

\* C24: the rows of computeSwissStandings are exactly the competitors that
\* own a record of the normalized history.  Without acceptSingleEntryMatches
\* that history is the one given, so a competitor named only as opponent has
\* no row.  With it, normalization appends to the given records exactly one
\* mirrored record (round, B, A) for each real record (round, A, B) that has
\* no counterpart, none for a match both sides entered and none for a bye;
\* normalizing the result again adds nothing.
C24_RowsOfNormalizedHistory ==
  SwissReturned =>
    /\ {rows[i].playerId : i \in RowIndex} = Owners(Normalized)
    /\ Len(rows) = Cardinality(Owners(Normalized))
    /\ SubSeq(Normalized, 1, Len(history)) = history
    /\ ~call.options.acceptSingleEntryMatches => Added = <<>>
    /\ \A i \in RealRecords(history) :
         Cardinality(Entries(Added, history[i].round, history[i].opponentId,
                             history[i].playerId))
           = IF i \in Unmirrored /\ call.options.acceptSingleEntryMatches THEN 1 ELSE 0
    /\ \A k \in DOMAIN Added :
         \E i \in Unmirrored :
           /\ Added[k].round = history[i].round
           /\ Added[k].playerId = history[i].opponentId
           /\ Added[k].opponentId = history[i].playerId
           /\ Added[k].result = flipResult(history[i].result)
    /\ call.options.acceptSingleEntryMatches =>
         normalizeMatchesForMirroring(Normalized) = Normalized

\* ------------------------------------------------------------------ properties: opponent percentages
\* The records of h that o owns and that count for an opponent percentage
\* seen from s: real, not against s, not a bye.
CountedFor(h, s, o) ==
  {i \in DOMAIN h : /\ h[i].playerId = o
                    /\ h[i].opponentId \notin {NoOpponent, s}
                    /\ h[i].result # BYE}

HowMany(h, I, results) == Cardinality({i \in I : h[i].result \in results})

RECURSIVE Games(_, _, _)
Games(h, I, field) ==
  IF I = {} THEN 0
  ELSE LET i == CHOOSE i \in I : TRUE IN h[i][field] + Games(h, I \ {i}, field)

\* Match-win percentage of o without its records against s (0 without any).
MatchPctWithout(h, s, o) ==
  LET I == CountedFor(h, s, o)
      w == HowMany(h, I, {WIN, FORFEIT_WIN})
      l == HowMany(h, I, {LOSS, FORFEIT_LOSS})
      d == HowMany(h, I, {DRAW})
  IN  IF w + l + d = 0 THEN R(0) ELSE Rat(2 * w + d, 2 * (w + l + d))

\* Game-win percentage of o without its records against s (0 without any).
GamePctWithout(h, s, o) ==
  LET I == CountedFor(h, s, o)
      gw == Games(h, I, "gameWins")
      gl == Games(h, I, "gameLosses")
      gd == Games(h, I, "gameDraws")
  IN  IF gw + gl + gd = 0 THEN R(0) ELSE Rat(2 * gw + gd, 2 * (gw + gl + gd))

Clamped(x) == IF RLt(x, R(0)) THEN R(0) ELSE IF RLt(R(1), x) THEN R(1) ELSE x

Floored(x) == RMax(call.options.opponentPctFloor, x)

\* One further entry per bye of the row when the virtual bye is enabled.
VirtualEntries(r, pct) ==
  IF call.options.vbEnabled THEN [k \in 1..r.byes |-> Floored(Clamped(pct))] ELSE <<>>

Mean(values) == RDiv(RSum(values), R(Len(values)))

OmwEntries(h, r) ==
  Array([k \in DOMAIN r.opponents |-> Floored(MatchPctWithout(h, r.playerId, r.opponents[k]))])
  \o Array(VirtualEntries(r, call.options.vbMwp))

OgwEntries(h, r) ==
  Array([k \in DOMAIN r.opponents |-> Floored(GamePctWithout(h, r.playerId, r.opponents[k]))])
  \o Array(VirtualEntries(r, call.options.vbGwp))

OpponentPctsOf(h, r) ==
  /\ OmwEntries(h, r) # <<>> => r.omwp = Mean(OmwEntries(h, r))
  /\ OgwEntries(h, r) # <<>> => r.ogwp = Mean(OgwEntries(h, r))

\* C25: in computeSwissStandings OMW% (OGW%) of a row is the plain mean of
\* one value per entry of its opponents list, a repeated opponent counted
\* each time: the opponent's match-win (game-win) percentage over its own
\* records without those against the row's competitor and without byes,
\* raised to the floor; with the virtual bye enabled, one further value per
\* bye of the row: the configured percentage clamped to [0, 1], then floored.
C25_OpponentPercentages ==
  SwissReturned => \A i \in RowIndex : OpponentPctsOf(Normalized, rows[i])

\* C25 witness: a competitor with a bye and a real opponent, the virtual bye
\* on with a match percentage above 1, and an opponent that also played
\* somebody else.
C25_Witness ==
  /\ SwissReturned
  /\ call.options.vbEnabled
  /\ RLt(R(1), call.options.vbMwp)
  /\ \E i \in RowIndex :
       /\ rows[i].byes > 0
       /\ \E k \in DOMAIN rows[i].opponents :
            /\ CountedFor(history, rows[i].playerId, rows[i].opponents[k]) # {}
            /\ Entries(history, round, rows[i].opponents[k], rows[i].playerId) # {}

\* ------------------------------------------------------------------ properties: Sonneborn-Berger
\* The history an engine tallies: the one given, with the mirrors added when
\* single entries are accepted.
Tallied ==
  IF call.op = "swiss" THEN Normalized
  ELSE IF call.options.acceptSingleEntryMatches THEN RRNormalize(history)
  ELSE history

\* Final match points of a competitor: those of its row, 0 without a row.
FinalPoints(p) == IF HasRow(p) THEN RowFor(rows, p).matchPoints ELSE 0

\* Twice the Sonneborn-Berger score of p: over its own real records, twice
\* the opponent's final match points per win or forfeit win, once per draw.
RECURSIVE TwiceSB(_, _, _)
TwiceSB(h, I, p) ==
  IF I = {} THEN 0
  ELSE LET i == CHOOSE i \in I : TRUE
           credit == IF h[i].result \in {WIN, FORFEIT_WIN} THEN 2 * FinalPoints(h[i].opponentId)
                     ELSE IF h[i].result = DRAW THEN FinalPoints(h[i].opponentId)
                     ELSE 0
       IN  credit + TwiceSB(h, I \ {i}, p)

OwnRealRecords(h, p) == {i \in RealRecords(h) : h[i].playerId = p}

\* C26: in both engines sb of a row is the sum, over the competitor's own
\* real records, of the opponent's final match points for a win or forfeit
\* win, half of them for a draw and nothing for a loss or forfeit loss; the
\* opponent's final match points are those of its row, 0 when it has none.
C26_SonnebornBerger ==
  StandingsReturned =>
    \A i \in RowIndex :
      rows[i].sb = Rat(TwiceSB(Tallied, OwnRealRecords(Tallied, rows[i].playerId),
                               rows[i].playerId), 2)

\* C26 witness: a row with a win over an opponent that has points and a loss
\* to an opponent that has points, and a positive score.
C26_Witness ==
  /\ StandingsReturned
  /\ \E i \in RowIndex :
       LET own == OwnRealRecords(history, rows[i].playerId)
       IN  /\ \E k \in own : history[k].result \in {WIN, FORFEIT_WIN}
                             /\ FinalPoints(history[k].opponentId) > 0
           /\ \E k \in own : history[k].result \in {LOSS, FORFEIT_LOSS}
                             /\ FinalPoints(history[k].opponentId) > 0
           /\ RLt(R(0), rows[i].sb)

\* ------------------------------------------------------------------ properties: tallies
\* The records of h that p owns.
OwnRecords(h, p) == {i \in DOMAIN h : h[i].playerId = p}

\* The points the call configures for a kind of result.
Configured(kind, fallback) ==
  IF kind \in DOMAIN call.options.points THEN call.options.points[kind] ELSE fallback

\* The opponents named by the own real records of p, with multiplicity.
OpponentCount(h, p, o) == Cardinality({i \in OwnRecords(h, p) : h[i].opponentId = o})

TallyOf(h, r) ==
  LET own == OwnRecords(h, r.playerId)
  IN  /\ r.wins = HowMany(h, own, {WIN, FORFEIT_WIN})
      /\ r.losses = HowMany(h, own, {LOSS, FORFEIT_LOSS})
      /\ r.draws = HowMany(h, own, {DRAW})
      /\ r.byes = HowMany(h, own, {BYE})
      /\ r.roundsPlayed = Cardinality(own)
      /\ r.wins + r.losses + r.draws + r.byes = r.roundsPlayed
      /\ r.matchPoints = Configured("win", 3) * r.wins + Configured("draw", 1) * r.draws
                         + Configured("loss", 0) * r.losses + Configured("bye", 3) * r.byes
      /\ Len(r.opponents) = r.roundsPlayed - r.byes
      /\ \A o \in Range(r.opponents) \cup {h[i].opponentId : i \in own} :
           Cardinality({k \in DOMAIN r.opponents : r.opponents[k] = o})
             = IF o = NoOpponent THEN 0 ELSE OpponentCount(h, r.playerId, o)
      /\ r.gameWins = Games(h, own, "gameWins") + 2 * r.byes

\* C27: in computeSwissStandings every row has wins + losses + draws + byes
\* = roundsPlayed and matchPoints = win * wins + draw * draws + loss * losses
\* + bye * byes under the configured points map, forfeits counted as wins
\* and losses and each missing entry of the map taken as 3, 1, 0, 3; a bye
\* adds no entry to opponents and adds 2 to gameWins.
C27_TalliesAndPoints ==
  SwissReturned => \A i \in RowIndex : TallyOf(Normalized, rows[i])

\* C27 witness: a points map with entries left out, and a row with a bye
\* next to a forfeit.
C27_Witness ==
  /\ SwissReturned
  /\ DOMAIN call.options.points # {"win", "draw", "loss", "bye"}
  /\ \E i \in RowIndex :
       /\ rows[i].byes > 0
       /\ \E k \in OwnRecords(history, rows[i].playerId) :
            history[k].result \in {FORFEIT_WIN, FORFEIT_LOSS}
       /\ rows[i].matchPoints > 0

\* ------------------------------------------------------------------ properties: accepted round-robin history
\* C28: whenever computeRoundRobinStandings returns in strict mode
\* (acceptSingleEntryMatches = false), the history it accepted is fully
\* mirrored: every real record (r, A, B) has a counterpart (r, B, A); a
\* history with one side of a match entered twice and the other side not at
\* all is not accepted.
C28_StrictModeAcceptsOnlyMirrored ==
  (call.op = "roundrobin" /\ ~call.options.acceptSingleEntryMatches /\ ~call.threw) =>
    \A i \in RealRecords(history) :
      Entries(history, history[i].round, history[i].opponentId, history[i].playerId) # {}

\* ------------------------------------------------------------------ properties: single elimination
BracketReturned == call.op = "singleelimination"

DeepestRound == maxRoundOf(history)

\* The rows with the champion depth.
ChampionDepth == {i \in RowIndex : rows[i].elimRound = DeepestRound + 1}

\* The last record of p.
LastRecord(p) ==
  LET own == OwnRecords(history, p)
  IN  history[CHOOSE i \in own : \A j \in own : history[j].round <= history[i].round]

LostInDeepest(p) ==
  /\ LastRecord(p).round = DeepestRound
  /\ LastRecord(p).result \in {LOSS, FORFEIT_LOSS}

OutEarlier(p) == LastRecord(p).round < DeepestRound

\* C29: for every bracket history in which each competitor plays at most one
\* match per round, at most one competitor gets the champion depth
\* elimRound = maxRound + 1 and that competitor is ranked 1; every
\* competitor whose last match was a loss in the deepest round is ranked
\* directly below the champion and above everyone eliminated in an earlier
\* round; useBronzeMatch never changes the result.
C29_OneChampionOnTop ==
  (BracketReturned /\ history # <<>>) =>
    /\ Cardinality(ChampionDepth) <= 1
    /\ \A i \in ChampionDepth : rows[i].rank = 1
    /\ \A i, j \in RowIndex :
         (LostInDeepest(rows[i].playerId) /\ OutEarlier(rows[j].playerId))
           => rows[i].rank < rows[j].rank
    /\ \A i \in RowIndex :
         LostInDeepest(rows[i].playerId) =>
           \A j \in RowIndex : rows[j].rank < rows[i].rank =>
             (j \in ChampionDepth \/ LostInDeepest(rows[j].playerId))
    /\ rows = computeSingleEliminationStandings(history,
                [call.options EXCEPT !.useBronzeMatch = ~call.options.useBronzeMatch])

\* ------------------------------------------------------------------ properties: memoised loader
\* C30: across any number and interleaving of getWasm calls of the bridge
\* the load is started at most once, with the url of the first call: every
\* later call returns the promise the first call created, whatever url it
\* passes and whether that promise is pending, fulfilled or rejected (a
\* failed load is not retried).
C30_LoadStartedOnce ==
  /\ Len(bridge.promises) <= 1
  /\ bridge.calls # <<>> =>
       /\ Len(bridge.promises) = 1
       /\ bridge.wasmReady = 1
       /\ bridge.promises[1].url = bridge.calls[1].url
       /\ \A i \in DOMAIN bridge.calls : bridge.calls[i].promise = bridge.calls[1].promise

\* C30 witness: the load failed, and a later call with another url got the
\* rejected promise of the first call.
C30_Witness ==
  /\ Len(bridge.calls) >= 3
  /\ \E i \in DOMAIN bridge.calls :
       /\ i > 1
       /\ bridge.calls[i].seen = "rejected"
       /\ bridge.calls[i].url # bridge.calls[1].url
       /\ bridge.calls[i].promise = bridge.calls[1].promise

\* C30 witness: a call made after the load succeeded, and the Elo module's
\* chained call, got the promise of the first call.
C30_WitnessLoaded ==
  /\ bridge.eloWasm = "chained"
  /\ \E i \in DOMAIN bridge.calls : i > 1 /\ bridge.calls[i].seen = "fulfilled"

====
